---- MODULE Spec2Model ----
(***************************************************************************)
(* Model of the archive engine in attic/archive.py: ChunkBuffer,           *)
(* DownloadPipeline, Archive (ingest, save, checkpoint, delete,            *)
(* calc_stats) and ArchiveChecker, together with the collaborators they    *)
(* drive (chunk cache, repository, manifest, chunker, msgpack).            *)
(*                                                                         *)
(* Plaintexts are tagged values [k, v]; a chunk id is the keyed hash of    *)
(* its plaintext, modelled as the injective wrapper [h |-> plaintext].     *)
(* The item stream is a sequence of tokens: one header token per item and  *)
(* one token per (id, size, csize) entry of its chunks list, so an item    *)
(* can straddle a chunk boundary exactly as a msgpack record does.         *)
(***************************************************************************)
EXTENDS Integers, Sequences, FiniteSets, TLC

\* ------------------------------------------------------------------ bounds
MaxItems == 2          \* items added in one ingest
MaxCheckpoints == 2    \* checkpoints written in one ingest
MaxDamage == 1         \* repository objects lost to corruption
MaxDepth == 2          \* segments of an item path handed to extract_item
MaxScan == 3           \* item-stream chunks of an archive robust_iterator scans

\* --------------------------------------------------- scaled program constants
BUFFER_SIZE == 2       \* ChunkBuffer.BUFFER_SIZE, counted in tokens
CHUNK_MIN == 2         \* minimal chunk length handed to chunkify
Overhead == 1          \* len(encrypt(data)) - len(data)

\* ------------------------------------------------------------- the universe
Names == {<<"a">>, <<"b">>}

IdHash(data) == [h |-> data]

FileData(tag, size) == [k |-> "file", v |-> [tag |-> tag, size |-> size]]

\* bytes(size): the all-zero plaintext of the given length
Zeros(size) == FileData("z", size)

StreamData(toks) == [k |-> "stream", v |-> toks]

ArchData(nm, items) == [k |-> "arch", v |-> [name |-> nm, items |-> items]]

\* len(plaintext)
DataLen(data) ==
    CASE data.k = "file" -> data.v.size
      [] data.k = "stream" -> Len(data.v)
      [] data.k = "arch" -> 1 + Len(data.v.items)

CSize(size) == size + Overhead

\* The filesystem being backed up: a directory and a regular file given by
\* the chunks the chunker cuts it into (in byte order); the file ends in a
\* chunk of zero bytes.
DirPaths == {"d"}

FilePaths == {"f"}

\* os.lstat(path): "h" and "k" are two names of one regular file
Stat(p) == IF p \in {"h", "k"} THEN [nlink |-> 2, ino |-> 1] ELSE [nlink |-> 1, ino |-> 2]

FileContent(p) == IF p = "g" THEN <<Zeros(1)>> ELSE <<FileData("x", 2), Zeros(1)>>

\* ---------------------------------------------------------------- msgpack
Triple(id) == <<id, DataLen(id.h), CSize(DataLen(id.h))>>

NoRef == <<>>

\* an item without b'source'
NoSource == ""

HdrTok(item) ==
    [t |-> "hdr", path |-> item.path, kind |-> item.kind, source |-> item.source,
     n |-> Len(item.chunks), ref |-> NoRef]

EntTok(c) == [t |-> "ent", path |-> "", kind |-> "", source |-> NoSource, n |-> 0, ref |-> c]

\* packer.pack(StableDict(item))
Pack(item) ==
    <<HdrTok(item)>> \o [i \in 1..Len(item.chunks) |-> EntTok(item.chunks[i])]

RECURSIVE PackAll(_)
PackAll(items) ==
    IF items = <<>> THEN <<>> ELSE Pack(Head(items)) \o PackAll(Tail(items))

HasChunks(item) == item.kind = "file"

Tl(s, n) == SubSeq(s, n + 1, Len(s))

\* Streaming unpacker: `for item in unpacker` over the bytes fed so far.
\* Yields every complete record at the front of buf and keeps the rest.
\* A token that does not start a record decodes to a non-mapping object,
\* reported as "junk".
RECURSIVE Drain(_)
Drain(buf) ==
    IF buf = <<>> THEN [items |-> <<>>, rest |-> <<>>]
    ELSE LET hd == Head(buf) IN
         IF hd.t # "hdr"
         THEN LET r == Drain(Tail(buf)) IN
              [items |-> <<[path |-> "", kind |-> "junk", source |-> NoSource, chunks |-> <<>>]>> \o r.items,
               rest |-> r.rest]
         ELSE IF Len(buf) < 1 + hd.n \/ \E i \in 2..(1 + hd.n) : buf[i].t # "ent"
              THEN [items |-> <<>>, rest |-> buf]
              ELSE LET it == [path |-> hd.path, kind |-> hd.kind, source |-> hd.source,
                              chunks |-> [i \in 1..hd.n |-> buf[i + 1].ref]]
                       r == Drain(Tl(buf, 1 + hd.n))
                   IN [items |-> <<it>> \o r.items, rest |-> r.rest]

\* ---------------------------------------------------------------- chunker
\* The rolling hash cuts after a token whose content matches the mask, once
\* the chunk is at least CHUNK_MIN long; the last chunk ends with the input.
Boundary(tok) == tok.t = "ent"

CutPoint(bytes) ==
    LET cuts == {i \in CHUNK_MIN..Len(bytes) : Boundary(bytes[i])}
    IN IF cuts = {} THEN Len(bytes)
       ELSE CHOOSE i \in cuts : \A j \in cuts : i <= j

RECURSIVE chunkify(_)
chunkify(bytes) ==
    IF bytes = <<>> THEN <<>>
    ELSE LET n == CutPoint(bytes)
         IN <<SubSeq(bytes, 1, n)>> \o chunkify(Tl(bytes, n))

\* ------------------------------------------------------------ ChunkBuffer
\* is_full that is true for a buffer of exactly BUFFER_SIZE
is_full_inclusive(buffer) == Len(buffer) >= BUFFER_SIZE

is_full(buffer) == Len(buffer) > BUFFER_SIZE

\* flush that forgets to write the last chunk back into the buffer
flush_drop_tail(buffer, final) ==
    IF buffer = <<>> THEN [emit |-> <<>>, buffer |-> <<>>]
    ELSE LET cs == chunkify(buffer)
         IN IF final \/ Len(cs) = 1
            THEN [emit |-> cs, buffer |-> <<>>]
            ELSE [emit |-> SubSeq(cs, 1, Len(cs) - 1), buffer |-> <<>>]

\* ChunkBuffer.flush: the chunks handed to write_chunk, in order, and the
\* bytes left in the buffer.
flush(buffer, final) ==
    IF buffer = <<>> THEN [emit |-> <<>>, buffer |-> <<>>]
    ELSE LET cs == chunkify(buffer)
         IN IF final \/ Len(cs) = 1
            THEN [emit |-> cs, buffer |-> <<>>]
            ELSE [emit |-> SubSeq(cs, 1, Len(cs) - 1), buffer |-> cs[Len(cs)]]

\* ChunkBuffer.add
add(buffer, item) ==
    LET b == buffer \o Pack(item)
    IN IF is_full(b) THEN flush(b, FALSE) ELSE [emit |-> <<>>, buffer |-> b]

NoFlush == [op |-> "none", final |-> FALSE, bytes |-> <<>>, chunks |-> <<>>]

\* ------------------------------------------------ cache (over a store S)
\* S = [cache, repo]: the chunk table id -> <<count, size, csize>> and the
\* set of ids the repository holds in the running transaction.
Drop(f, x) == [y \in DOMAIN f \ {x} |-> f[y]]

Put(f, x, v) == [y \in DOMAIN f \cup {x} |-> IF y = x THEN v ELSE f[y]]

seen_chunk(S, id) == id \in DOMAIN S.cache

chunk_incref(S, id) ==
    [S EXCEPT !.cache[id] = <<@[1] + 1, @[2], @[3]>>]

add_chunk(S, data) ==
    LET id == IdHash(data) IN
    IF seen_chunk(S, id) THEN chunk_incref(S, id)
    ELSE [cache |-> Put(S.cache, id, <<1, DataLen(data), CSize(DataLen(data))>>),
          repo |-> S.repo \cup {id}]

chunk_decref(S, id) ==
    IF S.cache[id][1] = 1
    THEN [cache |-> Drop(S.cache, id), repo |-> S.repo \ {id}]
    ELSE [S EXCEPT !.cache[id] = <<@[1] - 1, @[2], @[3]>>]

\* the (id, size, csize) triple chunk_incref / add_chunk return
Entry(S, id) == <<id, S.cache[id][2], S.cache[id][3]>>

RECURSIVE AddChunks(_, _)
AddChunks(S, datas) ==
    IF datas = <<>> THEN S ELSE AddChunks(add_chunk(S, Head(datas)), Tail(datas))

RECURSIVE IncrefAll(_, _)
IncrefAll(S, ids) ==
    IF ids = <<>> THEN S ELSE IncrefAll(chunk_incref(S, Head(ids)), Tail(ids))

RECURSIVE DecrefAll(_, _)
DecrefAll(S, ids) ==
    IF ids = <<>> THEN S ELSE DecrefAll(chunk_decref(S, Head(ids)), Tail(ids))

Ids(datas) == [i \in 1..Len(datas) |-> IdHash(datas[i])]

Streams(chunks) == [i \in 1..Len(chunks) |-> StreamData(chunks[i])]

\* ------------------------------------------------------- reading archives
\* metadata[b'items'] of the archive block with the given id
ItemIds(aid) == aid.h.v.items

\* unpack_many with a new unpacker for every chunk
RECURSIVE unpack_many_fresh(_, _)
unpack_many_fresh(ids, pending) ==
    IF ids = <<>> THEN <<>>
    ELSE Drain(Head(ids).h.v).items \o unpack_many_fresh(Tail(ids), <<>>)

\* DownloadPipeline.unpack_many without filter: feed each chunk to one
\* unpacker and yield the records that complete (pending = bytes of a
\* record still incomplete).
RECURSIVE unpack_many(_, _)
unpack_many(ids, pending) ==
    IF ids = <<>> THEN <<>>
    ELSE LET r == Drain(pending \o Head(ids).h.v)
         IN r.items \o unpack_many(Tail(ids), r.rest)

iter_items(aid) == unpack_many(ItemIds(aid), <<>>)

RECURSIVE FileIds(_)
FileIds(items) ==
    IF items = <<>> THEN <<>>
    ELSE LET it == Head(items)
         IN [i \in 1..Len(it.chunks) |-> it.chunks[i][1]] \o FileIds(Tail(items))

\* ---------------------------------------------------- Archive.extract_item
\* An item path is the sequence of its '/'-separated segments: '/a' is
\* <<"", "a">>, 'a/../b' is <<"a", "..", "b">>.  A location of the
\* filesystem is the sequence of names from the root; the root is a
\* directory that is always there.
Segs == {"", "..", "a"}

RestorePaths == UNION {[1..n -> Segs] : n \in 1..MaxDepth}

RestoreItems == [path : RestorePaths, kind : {"dir", "file"}]

\* self.cwd
Cwd == <<"cwd">>

InitFs == [loc \in {Cwd} |-> "dir"]

NoCall == [item |-> [path |-> <<>>, kind |-> "none"], changed |-> FALSE, res |-> "none"]

\* item[b'path'].startswith('/')
StartsWithSlash(path) == Len(path) >= 2 /\ path[1] = ""

\* item[b'path'].startswith('..'): of the segments modelled only '..'
\* begins with two dots
StartsWithDotDot(path) == path[1] = ".."

\* the test that makes extract_item raise
PathRefused(path) == StartsWithSlash(path) \/ StartsWithDotDot(path)

\* os.path.join(dest, path)
Join(dest, path) == IF StartsWithSlash(path) THEN path ELSE dest \o path

Front(seq) == SubSeq(seq, 1, Len(seq) - 1)

IsDir(F, loc) == loc = <<>> \/ (loc \in DOMAIN F /\ F[loc] = "dir")

Present(F, loc) == loc = <<>> \/ loc \in DOMAIN F

HasChildren(F, loc) == \E l \in DOMAIN F : Len(l) = Len(loc) + 1 /\ Front(l) = loc

\* path lookup by the kernel: every component walked through must be a
\* directory; the location named by the last component need not exist
RECURSIVE Walk(_, _, _)
Walk(F, cur, segs) ==
    IF segs = <<>> THEN [ok |-> TRUE, loc |-> cur]
    ELSE IF Head(segs) = "" THEN Walk(F, cur, Tail(segs))
    ELSE IF ~IsDir(F, cur) THEN [ok |-> FALSE, loc |-> cur]
    ELSE IF Head(segs) = ".." THEN Walk(F, Front(cur), Tail(segs))
    ELSE Walk(F, Append(cur, Head(segs)), Tail(segs))

\* os.path.exists(path), os.lstat(path) succeeding
Exists(F, full) == LET w == Walk(F, <<>>, full) IN w.ok /\ Present(F, w.loc)

\* the last component names an entry (not '', '.' or '..')
NamesEntry(full) == full # <<>> /\ full[Len(full)] \notin {"", ".."}

\* the try block of extract_item: lstat, then rmdir or unlink, errors ignored
RemoveExisting(F, full) ==
    LET w == Walk(F, <<>>, full) IN
    IF ~w.ok \/ w.loc \notin DOMAIN F \/ ~NamesEntry(full) THEN F
    ELSE IF F[w.loc] = "dir" /\ HasChildren(F, w.loc) THEN F
    ELSE [l \in DOMAIN F \ {w.loc} |-> F[l]]

\* os.mkdir(path)
Mkdir(F, full) ==
    LET w == Walk(F, <<>>, full) IN
    IF ~w.ok \/ ~NamesEntry(full) \/ Present(F, w.loc) THEN [ok |-> FALSE, fs |-> F]
    ELSE [ok |-> TRUE, fs |-> [l \in DOMAIN F \cup {w.loc} |-> IF l = w.loc THEN "dir" ELSE F[l]]]

\* os.makedirs(path): make the head if it does not exist, then mkdir
RECURSIVE MakeDirs(_, _)
MakeDirs(F, full) ==
    IF full = <<>> THEN [ok |-> FALSE, fs |-> F]
    ELSE LET head == Front(full)
             F1 == IF head # <<>> /\ ~Exists(F, head) THEN MakeDirs(F, head).fs ELSE F
         IN Mkdir(F1, full)

\* open(path, 'wb') and the writes of the chunks
OpenWrite(F, full) ==
    LET w == Walk(F, <<>>, full) IN
    IF ~w.ok \/ ~NamesEntry(full) \/ IsDir(F, w.loc) THEN [ok |-> FALSE, fs |-> F]
    ELSE [ok |-> TRUE, fs |-> [l \in DOMAIN F \cup {w.loc} |-> IF l = w.loc THEN "file" ELSE F[l]]]

Outcome(r) == [res |-> IF r.ok THEN "ok" ELSE "oserror", fs |-> r.fs]

\* Archive.extract_item(item) with dry_run=False on filesystem F, for a
\* directory and for a regular file with chunks
ExtractRun(item, F) ==
    IF PathRefused(item.path) THEN [res |-> "unsafe", fs |-> F]
    ELSE LET path == Join(Cwd, item.path)
             F1 == RemoveExisting(F, path)
         IN IF item.kind = "dir"
            THEN IF Exists(F1, path) THEN [res |-> "ok", fs |-> F1]
                 ELSE Outcome(MakeDirs(F1, path))
            ELSE LET m == IF Exists(F1, Front(path)) THEN [ok |-> TRUE, fs |-> F1]
                          ELSE MakeDirs(F1, Front(path))
                 IN IF m.ok THEN Outcome(OpenWrite(m.fs, path))
                    ELSE [res |-> "oserror", fs |-> m.fs]

\* --------------------------------- robust_iterator, statement by statement
NoScan ==
    [at |-> "idle", ids |-> <<>>, index |-> <<>>, pos |-> 0, state |-> 0,
     currkey |-> -1, tgtkey |-> -1, items |-> <<>>, calls |-> <<>>, runs |-> <<>>]

\* archive[b'items'] of the archives scanned: a list of ids of chunks that
\* each hold the record of one directory
ScanChunk(i) ==
    IdHash(StreamData(Pack([path |-> <<"p1", "p2", "p3", "p4", "p5">>[i], kind |-> "dir",
                            source |-> NoSource, chunks |-> <<>>])))

ScanInputs ==
    {[ids |-> ids, have |-> S] :
        ids \in UNION {[1..n -> {ScanChunk(i) : i \in 1..MaxScan}] : n \in 1..MaxScan},
        S \in SUBSET {ScanChunk(i) : i \in 1..MaxScan}}

\* ------------------------------------------------------------ process_file
NoFile ==
    [op |-> "none", path |-> "", known |-> FALSE, memo |-> <<>>, before |-> <<>>,
     after |-> <<>>, files |-> <<>>, filesBefore |-> <<>>, calls |-> <<>>,
     item |-> [path |-> "", kind |-> "none", source |-> NoSource, chunks |-> <<>>]]

\* the regular files of a source tree with two files; "g" is all zero bytes
TreeFiles == {"f", "g"}

\* the paths of a source tree in which "h" and "k" name one regular file
TreeLinks == {"h", "k"}

\* ------------------------------------------ unpack_many(preload=True)
NoPreload ==
    [at |-> "idle", ids |-> <<>>, excl |-> {}, pending |-> <<>>, batch |-> <<>>,
     log |-> <<>>, queue |-> <<>>, inorder |-> TRUE, all |-> <<>>]

\* ------------------------------------------------- ArchiveChecker.check
\* item[b'user'] (item[b'group']) of an item stored without a name
NoName == ""

\* Python's None, and an integer
None == [some |-> FALSE, v |-> 0]

Some(x) == [some |-> TRUE, v |-> x]

NoOwner ==
    [op |-> "none", numeric_owner |-> FALSE, user |-> NoName, group |-> NoName,
     iuid |-> 0, igid |-> 0, ruid |-> None, rgid |-> None, uid |-> 0, gid |-> 0]

NoCheck ==
    [op |-> "none", repair |-> FALSE, rebuilt |-> FALSE, puts |-> {}, deletes |-> {},
     commits |-> 0, writes |-> 0, repo |-> {}, drepo |-> {},
     rman |-> [present |-> TRUE, archives |-> <<>>],
     drman |-> [present |-> TRUE, archives |-> <<>>]]

\* -------------------------------------------------------------- the state
VARIABLES
    repo,       \* ids the repository holds (running transaction)
    rman,       \* the manifest object stored under MANIFEST_ID
    drepo,      \* repository as of its last commit
    drman,      \* stored manifest as of the last repository commit
    cache,      \* cache.chunks: id -> <<count, size, csize>>
    files,      \* cache.files: path -> memoized chunk ids
    dcache,     \* cache.chunks as of the last cache commit
    dfiles,     \* cache.files as of the last cache commit
    manifest,   \* manifest.archives in memory: name -> archive id
    synced,     \* the cache describes the repository; a repairing check that
                \* rewrote the repository leaves the cache stale, and bringing
                \* it back in step is Cache code: the history ends there
    pc,         \* where the running operation stands
    ip,         \* next statement of save() / delete()
    name,       \* Archive.name
    ckname,     \* Archive.checkpoint_name
    buffer,     \* items_buffer.buffer
    chunks,     \* items_buffer.chunks
    selfId,     \* Archive.id
    saveName,   \* the name save() was called with
    saveRet,    \* caller of save(): "ckpt" (write_checkpoint) or "final"
    nck,        \* checkpoints written by this ingest
    added,      \* items passed to add_item by this ingest, in call order
    hard_links, \* Archive.hard_links: inode -> safe path of its first occurrence
    trace,      \* statements executed by the running save() / delete()
    snap,       \* cache.chunks when the last operation started
    snapR,      \* ids the repository held when the last check started
    snapM,      \* the stored manifest's archives when the last check started
    lastOp,     \* the last operation started
    crashAt,    \* <<pc, ip>> at which the process stopped
    ndamage,    \* objects lost so far
    cchunks,    \* ArchiveChecker.chunks: the rebuilt index
    superseded, \* ArchiveChecker.possibly_superseded
    errorFound, \* ArchiveChecker.error_found
    repair,     \* ArchiveChecker.repair
    cman,       \* the checker's manifest.archives
    clog,       \* per archive rebuilt: what robust_iterator saw and yielded,
                \* and the calls of verify_file_chunks
    dropped,    \* names the check removed from the manifest
    outcome,    \* how the last calc_stats call ended
    fs,         \* the filesystem extract_item writes to: location -> kind
    xlast,      \* the last extract_item call: item, result, whether it changed fs
    scan,       \* robust_iterator: its frame (state, the groupby object, the
                \* statement it stands at) and what it has done so far
    wlog,       \* the check that ran: its arguments, whether the
                \* manifest was there, the repository calls that write, and the
                \* repository and manifest before it
    pl,         \* unpack_many(ids, filter, preload=True): the generator's frame,
                \* the preload and yield events so far, the prefetch queue
    slast,      \* the last calc_stats call: the archive, the cache and manifest
                \* it found, the stats.update calls it made, the files counted
    own,        \* the last restore_attrs call: numeric_owner, the item's owner
                \* fields, what the names resolved to, the ids passed to chown
    plast,      \* the last process_file call: the file, what the cache held,
                \* the calls made and the item emitted
    blast       \* the last ChunkBuffer call: add or flush, the flush argument,
                \* the bytes the buffer held when it tested or flushed them, and
                \* `chunks` before the call

dur == <<drepo, drman, dcache, dfiles>>

vol == <<repo, rman, cache, files, manifest>>

ing == <<name, ckname, buffer, chunks, selfId, saveName, saveRet, nck, added, hard_links>>

ctl == <<pc, ip, trace, snap, lastOp, crashAt, ndamage, synced>>

\* the restore destination
rst == <<fs, xlast>>

\* a ChunkBuffer driven directly
cbuf == <<blast>>

\* robust_iterator run statement by statement
rit == <<scan>>

\* process_file with its calls of the cache
pf == <<plast>>

\* unpack_many with preload, and the consumer of what it yields
pre == <<pl>>

\* calc_stats and restore_attrs with what they computed
obs == <<slast, own>>

chk == <<cchunks, superseded, errorFound, repair, cman, clog, dropped, snapR, snapM, wlog>>

main == <<dur, vol, ing, ctl, chk, outcome>>

\* state of the operations modelled on their own
aux == <<rst, cbuf, rit, pf, pre, obs>>

vars == <<main, aux>>

Empty == <<>>

NoId == IdHash([k |-> "none", v |-> 0])

NoStats ==
    [op |-> "none", name |-> <<>>, id |-> NoId, ok |-> FALSE, updates |-> <<>>,
     nfiles |-> 0, before |-> <<>>, archives |-> <<>>]

Init ==
    /\ repo = {} /\ drepo = {}
    /\ rman = [present |-> TRUE, archives |-> Empty]
    /\ drman = [present |-> TRUE, archives |-> Empty]
    /\ cache = Empty /\ dcache = Empty
    /\ files = Empty /\ dfiles = Empty
    /\ manifest = Empty
    /\ synced = TRUE
    /\ pc = "idle" /\ ip = 0
    /\ name = <<>> /\ ckname = <<>>
    /\ buffer = <<>> /\ chunks = <<>>
    /\ selfId = NoId
    /\ saveName = <<>> /\ saveRet = "final"
    /\ nck = 0
    /\ added = <<>>
    /\ hard_links = Empty
    /\ trace = <<>>
    /\ snap = Empty
    /\ lastOp = "none"
    /\ crashAt = <<"idle", 0>>
    /\ ndamage = 0
    /\ cchunks = Empty /\ superseded = {} /\ errorFound = FALSE /\ repair = FALSE
    /\ cman = Empty /\ clog = Empty /\ dropped = {}
    /\ snapR = {} /\ snapM = Empty
    /\ outcome = "none"
    /\ fs = InitFs /\ xlast = NoCall
    /\ blast = NoFlush
    /\ scan = NoScan
    /\ plast = NoFile
    /\ pl = NoPreload
    /\ wlog = NoCheck
    /\ slast = NoStats
    /\ own = NoOwner

NoChecker ==
    /\ cchunks' = Empty /\ superseded' = {} /\ errorFound' = FALSE /\ repair' = FALSE
    /\ cman' = Empty /\ clog' = Empty /\ dropped' = {}
    /\ snapR' = {} /\ snapM' = Empty /\ wlog' = NoCheck

NoBuffer ==
    /\ ckname' = <<>> /\ buffer' = <<>> /\ chunks' = <<>>
    /\ saveName' = <<>> /\ saveRet' = "final" /\ nck' = 0 /\ added' = <<>>
    /\ hard_links' = Empty

\* -------------------------------------------------------- Archive: ingest
\* '%s.checkpoint%s' % (name, i and ('.%d' % i) or '')
CheckpointName(n, i) == Append(n, i)

\* the while-loop of Archive.__init__: the first free checkpoint name
FreeCheckpointName(n, archives) ==
    LET free == {i \in 0..Cardinality(DOMAIN archives) :
                    CheckpointName(n, i) \notin DOMAIN archives}
    IN CheckpointName(n, CHOOSE i \in free : \A j \in free : i <= j)

\* Archive(repository, key, manifest, name, cache, create=True)
StartCreate(n) ==
    /\ pc = "idle" /\ synced /\ ndamage = 0
    /\ n \notin DOMAIN manifest
    /\ pc' = "ingest"
    /\ name' = n
    /\ ckname' = FreeCheckpointName(n, manifest)
    /\ buffer' = <<>> /\ chunks' = <<>> /\ added' = <<>> /\ nck' = 0
    /\ hard_links' = Empty
    /\ snap' = cache /\ lastOp' = "create" /\ trace' = <<>>
    /\ UNCHANGED <<dur, vol, selfId, saveName, saveRet, ip, crashAt, ndamage, synced,
                   chk, outcome, aux>>

\* Archive.add_item on store S (the cache and repository as the caller left
\* them): add to the items buffer, then write a checkpoint when one is due.
add_item(item, S, due) ==
    LET r == add(buffer, item)
        S2 == AddChunks(S, Streams(r.emit))
    IN /\ buffer' = r.buffer
       /\ chunks' = chunks \o Ids(Streams(r.emit))
       /\ cache' = S2.cache /\ repo' = S2.repo
       /\ added' = Append(added, item)
       /\ IF due
          THEN /\ pc' = "save" /\ ip' = 1 /\ trace' = <<>>
               /\ saveName' = ckname /\ saveRet' = "ckpt" /\ nck' = nck + 1
          ELSE /\ pc' = "ingest"
               /\ UNCHANGED <<ip, trace, saveName, saveRet, nck>>

\* Archive.process_item (directories, fifos)
process_item(p) ==
    /\ pc = "ingest" /\ Len(added) < MaxItems
    /\ \E due \in {FALSE, nck < MaxCheckpoints} :
          add_item([path |-> p, kind |-> "dir", source |-> NoSource, chunks |-> <<>>],
                   [cache |-> cache, repo |-> repo], due)
    /\ UNCHANGED <<dur, rman, files, manifest, name, ckname, selfId, hard_links,
                   snap, lastOp, crashAt, ndamage, synced, chk, outcome, aux>>

\* cache.file_known_and_unchanged: the memoized ids, or None
Known(p) == p \in DOMAIN files

\* `for id_ in ids: if not cache.seen_chunk(id_): break`
AllSeen(S, ids) == \A i \in 1..Len(ids) : seen_chunk(S, ids[i])

\* [cache.chunk_incref(id_, ...) for id_ in ids], or cache.add_chunk(
\* id_hash(chunk), chunk, ...) for every chunk: the store afterwards and the
\* calls with what they returned
RECURSIVE CallAll(_, _, _)
CallAll(S, op, args) ==
    IF args = <<>> THEN [S |-> S, calls |-> <<>>]
    ELSE LET id == IF op = "chunk_incref" THEN Head(args) ELSE IdHash(Head(args))
             S1 == IF op = "chunk_incref" THEN chunk_incref(S, id) ELSE add_chunk(S, Head(args))
             r == CallAll(S1, op, Tail(args))
         IN [S |-> r.S,
             calls |-> <<[op |-> op, arg |-> id, ret |-> Entry(S1, id)]>> \o r.calls]

\* a miss that first counts the memoized ids the cache has seen
FileChunkCallsCountSeen(S, p) ==
    IF Known(p) /\ AllSeen(S, files[p]) THEN CallAll(S, "chunk_incref", files[p])
    ELSE CallAll(CallAll(S, "chunk_incref",
                         SelectSeq(IF Known(p) THEN files[p] ELSE <<>>,
                                   LAMBDA id : seen_chunk(S, id))).S,
                 "add_chunk", FileContent(p))

\* the chunks of the item: a hit increments the memoized ids, a miss chunks
\* the file
FileChunkCalls(S, p) ==
    IF Known(p) /\ AllSeen(S, files[p]) THEN CallAll(S, "chunk_incref", files[p])
    ELSE CallAll(S, "add_chunk", FileContent(p))

\* self.hard_links.get((st.st_ino, st.st_dev))
HardLinkSource(p) ==
    IF Stat(p).ino \in DOMAIN hard_links THEN hard_links[Stat(p).ino] ELSE NoSource

\* a test that takes every file with more than one link for a later
\* occurrence
IsLaterOccurrenceAnyLink(p) == Stat(p).nlink > 1

\* `if st.st_nlink > 1: ... if (st.st_ino, st.st_dev) in self.hard_links`
IsLaterOccurrence(p) == Stat(p).nlink > 1 /\ Stat(p).ino \in DOMAIN hard_links

\* Archive.process_file up to add_item: the store, cache.files and the
\* hardlink table afterwards, the item, and the cache calls in call order
process_file_run(S, p) ==
    IF IsLaterOccurrence(p)
    THEN [S |-> S, files |-> files, hard_links |-> hard_links,
          item |-> [path |-> p, kind |-> "link", source |-> HardLinkSource(p),
                    chunks |-> <<>>],
          calls |-> <<>>]
    ELSE
    LET hit == Known(p) /\ AllSeen(S, files[p])
        r == FileChunkCalls(S, p)
        triples == [i \in 1..Len(r.calls) |-> r.calls[i].ret]
        ids == [i \in 1..Len(triples) |-> triples[i][1]]
    IN [S |-> r.S,
        files |-> IF hit THEN files ELSE Put(files, p, ids),
        hard_links |-> IF Stat(p).nlink > 1 THEN Put(hard_links, Stat(p).ino, p)
                       ELSE hard_links,
        item |-> [path |-> p, kind |-> "file", source |-> NoSource, chunks |-> triples],
        calls |-> IF hit THEN r.calls
                  ELSE <<[op |-> "open", arg |-> p, ret |-> <<>>]>> \o r.calls
                       \o <<[op |-> "memorize_file", arg |-> <<p, ids>>, ret |-> <<>>]>>]

\* process_file, then add_item
IngestFile(p) ==
    /\ pc = "ingest" /\ Len(added) < MaxItems
    /\ \E r \in {process_file_run([cache |-> cache, repo |-> repo], p)} :
          /\ files' = r.files
          /\ hard_links' = r.hard_links
          /\ \E due \in {FALSE, nck < MaxCheckpoints} : add_item(r.item, r.S, due)
    /\ UNCHANGED <<dur, rman, manifest, name, ckname, selfId,
                   snap, lastOp, crashAt, ndamage, synced, chk, outcome>>

process_file(p) ==
    /\ IngestFile(p)
    /\ UNCHANGED aux

\* process_file with a record of what it was given and what it called
process_file_traced(p) ==
    /\ IngestFile(p)
    /\ LET r == process_file_run([cache |-> cache, repo |-> repo], p)
       IN plast' = [op |-> "process_file", path |-> p, known |-> Known(p),
                    memo |-> IF Known(p) THEN files[p] ELSE <<>>,
                    before |-> cache, after |-> r.S.cache,
                    files |-> r.files, filesBefore |-> files,
                    calls |-> r.calls, item |-> r.item]
    /\ UNCHANGED <<rst, cbuf, rit, pre, obs>>

\* the final archive.save() of a create run
FinishIngest ==
    /\ pc = "ingest"
    /\ pc' = "save" /\ ip' = 1 /\ trace' = <<>>
    /\ saveName' = name /\ saveRet' = "final"
    /\ UNCHANGED <<dur, vol, name, ckname, buffer, chunks, selfId, nck, added, hard_links,
                   snap, lastOp, crashAt, ndamage, synced, chk, outcome, aux>>

\* ------------------------------------------------- Archive.save / delete
\* save() committing the repository before it writes the manifest
SaveProgLateWrite ==
    <<"flush", "add_chunk", "register", "repo_commit", "manifest_write", "cache_commit">>

\* The statements of save(), in program order.
SaveProg ==
    <<"flush", "add_chunk", "register", "manifest_write", "repo_commit", "cache_commit">>

\* delete() committing the repository before it writes the manifest
DeleteProgEarlyCommit ==
    <<"decref_items", "decref_self", "unregister", "repo_commit", "manifest_write",
      "cache_commit">>

\* The statements of delete(), in program order.
DeleteProg ==
    <<"decref_items", "decref_self", "unregister", "manifest_write", "repo_commit",
      "cache_commit">>

\* manifest.write(): store the in-memory manifest under MANIFEST_ID
manifest_write ==
    /\ rman' = [present |-> TRUE, archives |-> manifest]
    /\ UNCHANGED <<dur, repo, cache, files, manifest, buffer, chunks, selfId>>

\* repository.commit()
repository_commit ==
    /\ drepo' = repo /\ drman' = rman
    /\ UNCHANGED <<dcache, dfiles, vol, buffer, chunks, selfId>>

\* cache.commit()
cache_commit ==
    /\ dcache' = cache /\ dfiles' = files
    /\ UNCHANGED <<drepo, drman, vol, buffer, chunks, selfId>>

\* items_buffer.flush(flush=True) at the head of save()
save_flush ==
    LET r == flush(buffer, TRUE)
        S == AddChunks([cache |-> cache, repo |-> repo], Streams(r.emit))
    IN /\ buffer' = r.buffer
       /\ chunks' = chunks \o Ids(Streams(r.emit))
       /\ cache' = S.cache /\ repo' = S.repo
       /\ UNCHANGED <<dur, rman, files, manifest, selfId>>

\* self.id = id_hash(packb(metadata)); cache.add_chunk(self.id, data, stats)
save_add_chunk ==
    LET data == ArchData(saveName, chunks)
        S == add_chunk([cache |-> cache, repo |-> repo], data)
    IN /\ selfId' = IdHash(data)
       /\ cache' = S.cache /\ repo' = S.repo
       /\ UNCHANGED <<dur, rman, files, manifest, buffer, chunks>>

\* manifest.archives[name] = {'id': self.id, ...}
save_register ==
    /\ manifest' = Put(manifest, saveName, selfId)
    /\ UNCHANGED <<dur, repo, rman, cache, files, buffer, chunks, selfId>>

SaveStep ==
    /\ pc = "save"
    /\ LET st == SaveProg[ip] IN
       IF saveName \in DOMAIN manifest /\ "register" \notin {trace[i] : i \in 1..Len(trace)}
       THEN \* raise AlreadyExists(name)
            /\ pc' = "aborted" /\ UNCHANGED <<ip, trace, dur, vol, buffer, chunks, selfId>>
       ELSE /\ CASE st = "flush" -> save_flush
                  [] st = "add_chunk" -> save_add_chunk
                  [] st = "register" -> save_register
                  [] st = "manifest_write" -> manifest_write
                  [] st = "repo_commit" -> repository_commit
                  [] st = "cache_commit" -> cache_commit
            /\ trace' = Append(trace, st)
            /\ IF ip < Len(SaveProg)
               THEN ip' = ip + 1 /\ pc' = pc
               ELSE ip' = 0 /\ pc' = IF saveRet = "ckpt" THEN "ckpt_end" ELSE "done"
    /\ UNCHANGED <<name, ckname, saveName, saveRet, nck, added, hard_links,
                   snap, lastOp, crashAt, ndamage, synced, chk, outcome, aux>>

\* write_checkpoint that leaves the checkpoint's block referenced
write_checkpoint_keep ==
    /\ pc = "ckpt_end"
    /\ manifest' = Drop(manifest, ckname)
    /\ pc' = "ingest"
    /\ UNCHANGED <<dur, repo, cache, rman, files, ing, ip, trace, snap, lastOp, crashAt,
                   ndamage, synced, chk, outcome, aux>>

\* write_checkpoint that leaves the checkpoint's entry in the manifest
write_checkpoint_linger ==
    /\ pc = "ckpt_end"
    /\ LET S == chunk_decref([cache |-> cache, repo |-> repo], selfId)
       IN /\ manifest' = manifest
          /\ cache' = S.cache /\ repo' = S.repo
    /\ pc' = "ingest"
    /\ UNCHANGED <<dur, rman, files, ing, ip, trace, snap, lastOp, crashAt,
                   ndamage, synced, chk, outcome, aux>>

\* write_checkpoint releasing the item-stream chunk written last
DecrefTargetChunk == chunks[Len(chunks)]

\* the id write_checkpoint passes to cache.chunk_decref: self.id
DecrefTarget == selfId

\* the rest of write_checkpoint after save(checkpoint_name) returned
write_checkpoint_end ==
    /\ pc = "ckpt_end"
    /\ LET S == chunk_decref([cache |-> cache, repo |-> repo], DecrefTarget)
       IN /\ manifest' = Drop(manifest, ckname)
          /\ cache' = S.cache /\ repo' = S.repo
    /\ pc' = "ingest"
    /\ UNCHANGED <<dur, rman, files, ing, ip, trace, snap, lastOp, crashAt,
                   ndamage, synced, chk, outcome, aux>>

\* Archive(repository, key, manifest, name, cache) followed by delete(cache)
StartDelete(n) ==
    /\ pc = "idle" /\ synced /\ ndamage = 0
    /\ n \in DOMAIN manifest
    /\ pc' = "delete" /\ ip' = 1 /\ trace' = <<>>
    /\ name' = n /\ selfId' = manifest[n]
    /\ snap' = cache /\ lastOp' = "delete"
    /\ UNCHANGED <<dur, vol, ckname, buffer, chunks, saveName, saveRet, nck, added, hard_links,
                   crashAt, ndamage, synced, chk, outcome, aux>>

\* delete() that releases the item-stream chunks only
RECURSIVE DeleteWalkNoFiles(_, _)
DeleteWalkNoFiles(ids, pending) ==
    IF ids = <<>> THEN <<>>
    ELSE <<Head(ids)>> \o DeleteWalkNoFiles(Tail(ids), pending)

\* The ids delete() passes to chunk_decref in its loop, in call order: each
\* item-stream chunk, then the file chunks of the items it completes.
RECURSIVE DeleteWalk(_, _)
DeleteWalk(ids, pending) ==
    IF ids = <<>> THEN <<>>
    ELSE LET r == Drain(pending \o Head(ids).h.v)
         IN <<Head(ids)>> \o FileIds(r.items) \o DeleteWalk(Tail(ids), r.rest)

delete_decref_items ==
    LET S == DecrefAll([cache |-> cache, repo |-> repo], DeleteWalk(ItemIds(selfId), <<>>))
    IN /\ cache' = S.cache /\ repo' = S.repo
       /\ UNCHANGED <<dur, rman, files, manifest, buffer, chunks, selfId>>

\* delete() that keeps the reference to the archive's metadata block
delete_keep_self ==
    UNCHANGED <<dur, vol, buffer, chunks, selfId>>

delete_decref_self ==
    LET S == chunk_decref([cache |-> cache, repo |-> repo], selfId)
    IN /\ cache' = S.cache /\ repo' = S.repo
       /\ UNCHANGED <<dur, rman, files, manifest, buffer, chunks, selfId>>

\* del self.manifest.archives[self.name]
delete_unregister ==
    /\ manifest' = Drop(manifest, name)
    /\ UNCHANGED <<dur, repo, rman, cache, files, buffer, chunks, selfId>>

DeleteStep ==
    /\ pc = "delete"
    /\ LET st == DeleteProg[ip] IN
       /\ CASE st = "decref_items" -> delete_decref_items
             [] st = "decref_self" -> delete_decref_self
             [] st = "unregister" -> delete_unregister
             [] st = "manifest_write" -> manifest_write
             [] st = "repo_commit" -> repository_commit
             [] st = "cache_commit" -> cache_commit
       /\ trace' = Append(trace, st)
    /\ IF ip < Len(DeleteProg)
       THEN ip' = ip + 1 /\ pc' = pc
       ELSE ip' = 0 /\ pc' = "done"
    /\ UNCHANGED <<name, ckname, saveName, saveRet, nck, added, hard_links,
                   snap, lastOp, crashAt, ndamage, synced, chk, outcome, aux>>

\* An operation that completed returns and its process exits: what it held
\* in memory is gone when the next operation starts.
ExitBody ==
    /\ pc = "done" /\ synced
    /\ pc' = "idle" /\ ip' = 0 /\ trace' = <<>>
    /\ name' = <<>> /\ selfId' = NoId
    /\ snap' = Empty /\ lastOp' = "none" /\ outcome' = "none"
    /\ NoBuffer /\ NoChecker
    /\ UNCHANGED <<dur, vol, crashAt, ndamage, synced>>

Exit == ExitBody /\ UNCHANGED aux

\* the process ends, and the Statistics of its calc_stats call with it
ExitStats ==
    /\ ExitBody
    /\ slast' = NoStats
    /\ UNCHANGED <<own, rst, cbuf, rit, pf, pre>>

\* The process stops in the middle of a create or delete: what it held in
\* memory and everything not committed is lost.
Crash ==
    /\ pc \in {"ingest", "save", "ckpt_end", "delete"}
    /\ crashAt' = <<pc, ip>>
    /\ pc' = "crashed"
    /\ repo' = drepo /\ rman' = drman
    /\ cache' = dcache /\ files' = dfiles
    /\ manifest' = drman.archives
    /\ ckname' = <<>> /\ buffer' = <<>> /\ chunks' = <<>> /\ selfId' = NoId
    /\ saveName' = <<>> /\ added' = <<>> /\ trace' = <<>> /\ hard_links' = Empty
    /\ UNCHANGED <<dur, name, saveRet, nck, ip, snap, lastOp, ndamage, synced, chk, outcome, aux>>

\* ------------------------------------------------------ Archive.calc_stats
Range(seq) == {seq[i] : i \in 1..Len(seq)}

Count(idx, id) == IF id \in DOMAIN idx THEN idx[id][1] ELSE 0

\* What calc_stats does, in order: add(self.id), then for every item-stream
\* chunk the fetch of the chunk, add(id), and add() of the file chunks of
\* the items the chunk completes.
RECURSIVE StatsWalk(_, _)
StatsWalk(ids, pending) ==
    IF ids = <<>> THEN <<>>
    ELSE LET r == Drain(pending \o Head(ids).h.v)
             fids == FileIds(r.items)
         IN <<[op |-> "get", id |-> Head(ids)], [op |-> "add", id |-> Head(ids)]>>
            \o [i \in 1..Len(fids) |-> [op |-> "add", id |-> fids[i]]]
            \o StatsWalk(Tail(ids), r.rest)

\* Run the walk on chunk table c until it ends or a statement raises
\* (repository.get_many on an id the repository lacks, cache.chunks[id] on
\* an id the table lacks).
\* add(id) counts a reference as unique whatever the count is
calc_stats_add_always(c, id) ==
    [chunks |-> [c EXCEPT ![id] = <<@[1] - 1, @[2], @[3]>>],
     update |-> [id |-> id, size |-> c[id][2], csize |-> c[id][3], unique |-> TRUE]]

\* add(id) of calc_stats: the arguments of its stats.update call, and the
\* chunk table with the count of id one lower
calc_stats_add(c, id) ==
    [chunks |-> [c EXCEPT ![id] = <<@[1] - 1, @[2], @[3]>>],
     update |-> [id |-> id, size |-> c[id][2], csize |-> c[id][3], unique |-> c[id][1] = 1]]

\* Run the walk on chunk table c until it ends or a statement raises
\* (repository.get_many on an id the repository lacks, cache.chunks[id] on
\* an id the table lacks); updates are the stats.update calls made.
RECURSIVE StatsRun(_, _, _)
StatsRun(evs, c, R) ==
    IF evs = <<>> THEN [chunks |-> c, ok |-> TRUE, updates |-> <<>>]
    ELSE LET e == Head(evs) IN
         IF e.op = "get"
         THEN IF e.id \in R THEN StatsRun(Tail(evs), c, R)
              ELSE [chunks |-> c, ok |-> FALSE, updates |-> <<>>]
         ELSE IF e.id \in DOMAIN c
              THEN LET a == calc_stats_add(c, e.id)
                       r == StatsRun(Tail(evs), a.chunks, R)
                   IN [r EXCEPT !.updates = <<a.update>> \o @]
              ELSE [chunks |-> c, ok |-> FALSE, updates |-> <<>>]

\* stats.nfiles: the items of the archive that have chunks
StatsFiles(aid) ==
    Cardinality({i \in 1..Len(iter_items(aid)) : HasChunks(iter_items(aid)[i])})

\* Archive(repository, key, manifest, name, cache).calc_stats(cache):
\* cache.begin_txn(), the walk, cache.rollback() when the walk returned.
CalcStats(n, r) ==
    /\ pc = "idle" /\ synced
    /\ n \in DOMAIN manifest /\ manifest[n] \in repo
    /\ IF r.ok
       THEN /\ cache' = dcache /\ files' = dfiles
            /\ outcome' = "returned" /\ pc' = "done"
       ELSE /\ cache' = r.chunks /\ files' = files
            /\ outcome' = "failed" /\ pc' = "aborted"
    /\ snap' = cache /\ lastOp' = "stats" /\ name' = n /\ selfId' = manifest[n]
    /\ UNCHANGED <<dur, repo, rman, manifest, ckname, buffer, chunks, saveName, saveRet,
                   nck, added, hard_links, ip, trace, crashAt, ndamage, synced, chk>>

StatsOf(n) ==
    StatsRun(<<[op |-> "add", id |-> manifest[n]]>>
                 \o StatsWalk(ItemIds(manifest[n]), <<>>), cache, repo)

calc_stats(n) ==
    /\ n \in DOMAIN manifest
    /\ \E r \in {StatsOf(n)} : CalcStats(n, r)
    /\ UNCHANGED aux

\* calc_stats, and the Statistics it built
calc_stats_traced(n) ==
    /\ n \in DOMAIN manifest
    /\ \E r \in {StatsOf(n)} :
          /\ CalcStats(n, r)
          /\ slast' = [op |-> "stats", name |-> n, id |-> manifest[n], ok |-> r.ok,
                       updates |-> r.updates,
                       nfiles |-> IF r.ok THEN StatsFiles(manifest[n]) ELSE 0,
                       before |-> cache, archives |-> manifest]
    /\ UNCHANGED <<own, rst, cbuf, rit, pf, pre>>

\* --------------------------------------------------------- ArchiveChecker
\* C = [chunks, repo]: the rebuilt index and the repository.

\* add_reference that stores a new object whatever self.repair says
add_reference_put(C, id, size, csize, rp) ==
    IF id \in DOMAIN C.chunks
    THEN [C EXCEPT !.chunks[id] = <<@[1] + 1, size, csize>>]
    ELSE [chunks |-> Put(C.chunks, id, <<1, size, csize>>), repo |-> C.repo \cup {id}]

\* add_reference(id_, size, csize, cdata); every caller that can miss the
\* index passes cdata.
add_reference(C, id, size, csize, rp) ==
    IF id \in DOMAIN C.chunks
    THEN [C EXCEPT !.chunks[id] = <<@[1] + 1, size, csize>>]
    ELSE [chunks |-> Put(C.chunks, id, <<1, size, csize>>),
          repo |-> IF rp THEN C.repo \cup {id} ELSE C.repo]

\* add_callback(chunk): the checker's write_chunk
add_callback(C, data, rp) ==
    add_reference(C, IdHash(data), DataLen(data), CSize(DataLen(data)), rp)

RECURSIVE AddCallbacks(_, _, _)
AddCallbacks(C, datas, rp) ==
    IF datas = <<>> THEN C
    ELSE AddCallbacks(add_callback(C, Head(datas), rp), Tail(datas), rp)

\* verify_file_chunks that keeps the id of a missing chunk
RECURSIVE verify_file_chunks_keep(_, _, _)
verify_file_chunks_keep(C, entries, rp) ==
    IF entries = <<>> THEN [C |-> C, list |-> <<>>, steps |-> <<>>]
    ELSE LET e == Head(entries)
             missing == e[1] \notin DOMAIN C.chunks
             C1 == add_reference(C, e[1], e[2], e[3], rp)
             r == verify_file_chunks_keep(C1, Tail(entries), rp)
             step == [present |-> ~missing,
                      before |-> Count(C.chunks, e[1]), after |-> Count(C1.chunks, e[1]),
                      stored |-> e[1] \in C1.repo]
         IN [C |-> r.C, list |-> <<e>> \o r.list, steps |-> <<step>> \o r.steps]

\* verify_file_chunks(item): the rewritten chunk list, the store after it,
\* and for every entry what the call saw and did
RECURSIVE verify_file_chunks(_, _, _)
verify_file_chunks(C, entries, rp) ==
    IF entries = <<>> THEN [C |-> C, list |-> <<>>, steps |-> <<>>]
    ELSE LET e == Head(entries)
             missing == e[1] \notin DOMAIN C.chunks
             id == IF missing THEN IdHash(Zeros(e[2])) ELSE e[1]
             csz == IF missing THEN CSize(e[2]) ELSE e[3]
             C1 == add_reference(C, id, e[2], csz, rp)
             r == verify_file_chunks(C1, Tail(entries), rp)
             step == [present |-> ~missing,
                      before |-> Count(C.chunks, id), after |-> Count(C1.chunks, id),
                      stored |-> id \in C1.repo]
         IN [C |-> r.C, list |-> <<<<id, e[2], csz>>>> \o r.list,
             steps |-> <<step>> \o r.steps]

\* msgpack_resync(data): drop leading bytes until next(unpacker) gives a
\* record with a path.  "ok": it returns the data from that record on;
\* "stop": next(unpacker) runs out of data inside a record and raises
\* StopIteration; "none": no byte is left and the function returns None,
\* which unpacker.feed refuses with a TypeError
RECURSIVE msgpack_resync(_)
msgpack_resync(data) ==
    IF data = <<>> THEN [end |-> "none", data |-> <<>>]
    ELSE LET hd == Head(data) IN
         IF hd.t # "hdr" THEN msgpack_resync(Tail(data))
         ELSE IF Len(data) < 1 + hd.n \/ \E i \in 2..(1 + hd.n) : data[i].t # "ent"
              THEN [end |-> "stop", data |-> data]
              ELSE [end |-> "ok", data |-> data]

\* a detector that keeps the state it was given when the id is missing
missing_chunk_detector_blind(state, id, index) ==
    state

missing_chunk_detector(state, id, index) ==
    IF state % 2 # (IF id \notin DOMAIN index THEN 1 ELSE 0) THEN state + 1 ELSE state

\* groupby(archive[b'items'], missing_chunk_detector): runs of ids with the
\* state the detector returned for them
RECURSIVE GroupBy(_, _, _)
GroupBy(ids, state, index) ==
    IF ids = <<>> THEN <<>>
    ELSE LET st == missing_chunk_detector(state, Head(ids), index)
             rest == GroupBy(Tail(ids), st, index)
         IN IF rest # <<>> /\ rest[1].state = st
            THEN <<[state |-> st, ids |-> <<Head(ids)>> \o rest[1].ids]>> \o Tail(rest)
            ELSE <<[state |-> st, ids |-> <<Head(ids)>>]>> \o rest

\* the inner loop of robust_iterator over one run, with a fresh unpacker;
\* state is the value of the variable `state` while the loop runs.  The
\* items yielded and how the loop ended: "ok", or the end msgpack_resync
\* came to
RECURSIVE RunChunks(_, _, _, _)
RunChunks(ids, i, state, pending) ==
    IF i > Len(ids) THEN [items |-> <<>>, end |-> "ok"]
    ELSE LET raw == ids[i].h.v
             s == IF state # 0 /\ i = 1 THEN msgpack_resync(raw)
                  ELSE [end |-> "ok", data |-> raw]
         IN IF s.end # "ok" THEN [items |-> <<>>, end |-> s.end]
            ELSE LET r == Drain(pending \o s.data)
                     rest == RunChunks(ids, i + 1, state, r.rest)
                 IN [items |-> r.items \o rest.items, end |-> rest.end]

\* `state` while a run is read: missing_chunk_detector shares the variable
\* with the for-loop, and list(items) has called it for the first id of
\* the following run
StateInLoop(g, following) == IF following = <<>> THEN g.state ELSE g.state + 1

\* the outer loop of robust_iterator: a damaged run ends the iteration
RECURSIVE RobustGroups(_)
RobustGroups(groups) ==
    IF groups = <<>> THEN [items |-> <<>>, end |-> "ok"]
    ELSE LET g == Head(groups) IN
         IF g.state % 2 = 1 THEN [items |-> <<>>, end |-> "ok"]
         ELSE LET run == RunChunks(g.ids, 1, StateInLoop(g, Tail(groups)), <<>>)
                  rest == RobustGroups(Tail(groups))
              IN IF run.end # "ok" THEN run
                 ELSE [items |-> run.items \o rest.items, end |-> rest.end]

robust_iterator(aid, index) == RobustGroups(GroupBy(ItemIds(aid), 0, index))

\* ids robust_iterator fetches with repository.get_many
RobustFetched(aid, index) ==
    LET groups == GroupBy(ItemIds(aid), 0, index)
    IN IF groups = <<>> \/ groups[1].state % 2 = 1 THEN {}
       ELSE {groups[1].ids[i] : i \in 1..Len(groups[1].ids)}

\* 'Archive metadata damage detected', reported when the loop comes to a
\* damaged run
RobustDamage(aid, index) == \E i \in 1..Len(ItemIds(aid)) : ItemIds(aid)[i] \notin DOMAIN index

\* `for item in robust_iterator(archive)`: verify_file_chunks for an item
\* with chunks, then items_buffer.add(item)
RECURSIVE RebuildItems(_, _, _, _, _)
RebuildItems(C, items, buf, out, rp) ==
    IF items = <<>> THEN [C |-> C, buffer |-> buf, out |-> out, calls |-> <<>>]
    ELSE LET item == Head(items)
             v == IF HasChunks(item) THEN verify_file_chunks(C, item.chunks, rp)
                  ELSE [C |-> C, list |-> item.chunks, steps |-> <<>>]
             r == add(buf, [item EXCEPT !.chunks = v.list])
             C2 == AddCallbacks(v.C, Streams(r.emit), rp)
             rest == RebuildItems(C2, Tail(items), r.buffer, out \o Ids(Streams(r.emit)), rp)
             call == [entries |-> item.chunks, list |-> v.list, steps |-> v.steps]
         IN [rest EXCEPT !.calls = (IF HasChunks(item) THEN <<call>> ELSE <<>>) \o @]

\* 'Missing file chunk detected' for some item
MissingFileChunk(calls) ==
    \E i \in 1..Len(calls) : \E j \in 1..Len(calls[i].steps) : ~calls[i].steps[j].present

\* the archive is reported and its name left in the manifest
DropArchiveKeep(man, n) == man

\* del self.manifest.archives[name]
DropArchive(man, n) == Drop(man, n)

\* one turn of the loop of rebuild_chunks, for archive n; st holds the
\* checker's index and repository (C), its manifest, possibly_superseded,
\* error_found, ok = no statement raised so far, and stop = a
\* StopIteration was raised inside robust_iterator.  pep479: the
\* interpreter turns that StopIteration into a RuntimeError (Python 3.7 and
\* later); before, it ends the generator.
rebuild_archive(st, n, rp, pep479) ==
    LET aid == st.man[n] IN
    IF aid \notin DOMAIN st.C.chunks
    THEN \* 'Archive metadata block is missing'
         [st EXCEPT !.err = TRUE, !.man = DropArchive(@, n), !.dropped = @ \cup {n}]
    ELSE IF ~(({aid} \cup RobustFetched(aid, st.C.chunks)) \subseteq st.C.repo)
    THEN \* repository.get raises: the id is in the index, not in the repository
         [st EXCEPT !.ok = FALSE]
    ELSE LET it == robust_iterator(aid, st.C.chunks) IN
         IF it.end = "none" \/ (it.end = "stop" /\ pep479)
         THEN [st EXCEPT !.ok = FALSE, !.stop = (it.end = "stop")]
         ELSE
         LET its == it.items
             b == RebuildItems(st.C, its, <<>>, <<>>, rp)
             r == flush(b.buffer, TRUE)
             C1 == AddCallbacks(b.C, Streams(r.emit), rp)
             items == b.out \o Ids(Streams(r.emit))
             sup1 == st.sup \cup {id \in Range(ItemIds(aid)) : Count(C1.chunks, id) = 0}
             data == ArchData(aid.h.v.name, items)
             C2 == add_reference(C1, IdHash(data), DataLen(data), CSize(DataLen(data)), rp)
             rec == [id |-> aid,
                     missing |-> {id \in Range(ItemIds(aid)) : id \notin DOMAIN st.C.chunks},
                     yielded |-> its, calls |-> b.calls]
         IN [C |-> C2,
             man |-> [st.man EXCEPT ![n] = IdHash(data)],
             sup |-> sup1 \cup (IF Count(C2.chunks, aid) = 0 THEN {aid} ELSE {}),
             err |-> (st.err \/ (it.end = "ok" /\ RobustDamage(aid, st.C.chunks))
                             \/ MissingFileChunk(b.calls)),
             dropped |-> st.dropped,
             log |-> Put(st.log, n, rec),
             ok |-> TRUE,
             stop |-> (st.stop \/ it.end = "stop")]

\* ArchiveChecker.rebuild_chunks: the loop over list(manifest.archives.items())
RECURSIVE rebuild_chunks(_, _, _, _)
rebuild_chunks(st, order, rp, pep479) ==
    IF order = <<>> \/ ~st.ok THEN st
    ELSE rebuild_chunks(rebuild_archive(st, Head(order), rp, pep479), Tail(order), rp, pep479)

\* the orders in which a dict can enumerate the names S
Orders(S) ==
    {o \in [1..Cardinality(S) -> S] : \A i, j \in 1..Cardinality(S) : o[i] = o[j] => i = j}

\* verify_chunks that also deletes every id marked possibly superseded
verify_chunks_superseded(index, sup) ==
    LET unused == {id \in DOMAIN index : index[id][1] = 0}
    IN [unused |-> unused \cup sup, orphaned |-> unused \ sup]

\* ArchiveChecker.verify_chunks: the ids with count 0, which repair deletes,
\* and those of them reported as orphaned
verify_chunks(index, sup) ==
    LET unused == {id \in DOMAIN index : index[id][1] = 0}
    IN [unused |-> unused, orphaned |-> unused \ sup]

\* init_chunks and Manifest.load: every id of the repository with count 0
CheckInit ==
    [C |-> [chunks |-> [id \in repo |-> <<0, 0, 0>>], repo |-> repo],
     man |-> rman.archives, sup |-> {}, err |-> FALSE, dropped |-> {},
     log |-> Empty, ok |-> TRUE, stop |-> FALSE]

\* msgpack.unpackb(data) is a dict holding b'items' and b'cmdline'
IsArchiveBlock(id) == id.h.k = "arch"

\* the ids rebuild_manifest registers; every other id is skipped
ArchiveBlocks(R) == {id \in R : IsArchiveBlock(id)}

\* ArchiveChecker.rebuild_manifest: the loop over self.chunks.iteritems(),
\* given the order in which the index enumerates the archive blocks; a
\* block met later replaces an entry of the same name
RECURSIVE rebuild_manifest(_)
rebuild_manifest(order) ==
    IF order = <<>> THEN Empty
    ELSE LET id == order[Len(order)]
         IN Put(rebuild_manifest(SubSeq(order, 1, Len(order) - 1)), id.h.v.name, id)

\* init_chunks, then the manifest the checker works on: the loaded one, or
\* the rebuilt one, whose rebuild has reported errors
CheckInitWith(man, rebuilt) == [CheckInit EXCEPT !.man = man, !.err = rebuilt]

\* ArchiveChecker.check(repository, repair=rp) from rebuild_chunks on, with
\* self.manifest = man0
CheckBody(rp, man0, rebuilt) ==
    /\ \E order \in Orders(DOMAIN man0) :
       \E st0 \in {rebuild_chunks(CheckInitWith(man0, rebuilt), order, rp, FALSE)} :
       \E st \in {st0} \cup (IF st0.stop
                               THEN {rebuild_chunks(CheckInitWith(man0, rebuilt), order, rp, TRUE)}
                               ELSE {}) :
       \E v \in {verify_chunks(st.C.chunks, st.sup)} :
       LET wrote == st.ok /\ rp
           R == IF wrote THEN st.C.repo \ v.unused ELSE st.C.repo
       IN /\ cchunks' = st.C.chunks /\ superseded' = st.sup
          /\ cman' = st.man /\ clog' = st.log /\ dropped' = st.dropped
          /\ errorFound' = (st.err \/ (st.ok /\ v.orphaned # {}))
          /\ pc' = IF st.ok THEN "done" ELSE "aborted"
          /\ repo' = R
          /\ IF wrote
             THEN \* repository.delete(unused), manifest.write(), repository.commit()
                  /\ rman' = [present |-> TRUE, archives |-> st.man]
                  /\ drepo' = R
                  /\ drman' = [present |-> TRUE, archives |-> st.man]
                  /\ manifest' = st.man
                  /\ synced' = (R = drepo /\ st.man = drman.archives)
             ELSE UNCHANGED <<rman, drepo, drman, manifest, synced>>
          /\ wlog' = [op |-> "check", repair |-> rp, rebuilt |-> rebuilt,
                       puts |-> st.C.repo \ repo,
                       deletes |-> IF wrote THEN v.unused ELSE {},
                       commits |-> IF wrote THEN 1 ELSE 0,
                       writes |-> IF wrote THEN 1 ELSE 0,
                       repo |-> repo, drepo |-> drepo, rman |-> rman, drman |-> drman]
    /\ repair' = rp
    /\ snap' = cache /\ snapR' = repo /\ snapM' = rman.archives /\ lastOp' = "check"
    /\ UNCHANGED <<dcache, dfiles, cache, files, ing, ip, trace, crashAt, ndamage, outcome, aux>>

\* The manifest check works on: the stored one (Manifest.load), or, when the
\* repository has none, what rebuild_manifest makes of the archive blocks in
\* the order in which the index enumerates them
CheckManifests ==
    IF rman.present
    THEN {[man |-> rman.archives, rebuilt |-> FALSE]}
    ELSE {[man |-> rebuild_manifest(border), rebuilt |-> TRUE] :
              border \in Orders(ArchiveBlocks(repo))}

\* ArchiveChecker.check(repository, repair=rp): init_chunks, Manifest.load
\* or rebuild_manifest, rebuild_chunks, verify_chunks. On a repository
\* without manifest identify_key needs an object to read, and
\* `del self.chunks[MANIFEST_ID]` finds nothing to remove.
check(rp) ==
    /\ pc = "idle" /\ synced
    /\ rman.present \/ repo # {}
    /\ \E m \in CheckManifests : CheckBody(rp, m.man, m.rebuilt)

\* The manifest object of the repository is lost (disk corruption).
CorruptManifest ==
    /\ pc = "idle" /\ synced /\ ndamage < MaxDamage
    /\ rman.present
    /\ rman' = [present |-> FALSE, archives |-> Empty]
    /\ drman' = [present |-> FALSE, archives |-> Empty]
    /\ manifest' = Empty
    /\ ndamage' = ndamage + 1
    /\ UNCHANGED <<drepo, dcache, dfiles, repo, cache, files, ing, pc, ip, trace,
                   snap, lastOp, crashAt, synced, chk, outcome, aux>>

\* An object of the repository is lost (disk corruption).
Corrupt(id) ==
    /\ pc = "idle" /\ synced /\ ndamage < MaxDamage
    /\ id \in repo
    /\ repo' = repo \ {id} /\ drepo' = drepo \ {id}
    /\ ndamage' = ndamage + 1
    /\ UNCHANGED <<drman, dcache, dfiles, rman, cache, files, manifest, ing, pc, ip, trace,
                   snap, lastOp, crashAt, synced, chk, outcome, aux>>

\* archive.extract_item(item) called on the restore destination
extract_item(item) ==
    /\ \E r \in {ExtractRun(item, fs)} :
          /\ fs' = r.fs
          /\ xlast' = [item |-> item, changed |-> (r.fs # fs), res |-> r.res]
    /\ UNCHANGED <<main, cbuf, rit, pf, pre, obs>>

\* restores into a directory, item by item
NextExtract == \E item \in RestoreItems : extract_item(item)

SpecExtract == Init /\ [][NextExtract]_vars

\* robust_iterator(archive) is called: state = 0, prev_state = None, and the
\* for-loop asks groupby for its first group
robust_iterator_call(in) ==
    /\ scan.at = "idle"
    /\ in.have \subseteq Range(in.ids)
    /\ scan' = [NoScan EXCEPT !.at = "next", !.ids = in.ids,
                              !.index = [id \in in.have |-> <<0, 0, 0>>]]
    /\ UNCHANGED <<main, rst, cbuf, pf, pre, obs>>

\* one call keyfunc(next(it)) inside groupby: missing_chunk_detector on the
\* next id of archive[b'items']
Detect(sc) ==
    LET id == sc.ids[sc.pos + 1]
        st == missing_chunk_detector(sc.state, id, sc.index)
    IN [sc EXCEPT !.pos = @ + 1, !.state = st, !.currkey = st,
                  !.calls = Append(@, [exists |-> id \in DOMAIN sc.index,
                                       before |-> sc.state, after |-> st])]

\* groupby.__next__: fetch ids while currkey == tgtkey; the for-loop ends
\* when the list is exhausted
groupby_next ==
    /\ scan.at = "next"
    /\ scan' = IF scan.currkey # scan.tgtkey
               THEN [scan EXCEPT !.at = "top", !.tgtkey = scan.currkey,
                                 !.items = <<scan.ids[scan.pos]>>]
               ELSE IF scan.pos = Len(scan.ids) THEN [scan EXCEPT !.at = "end"]
               ELSE Detect(scan)
    /\ UNCHANGED <<main, rst, cbuf, pf, pre, obs>>

\* `for state, items in ...` assigns state; `if state % 2: ... return`
loop_top ==
    /\ scan.at = "top"
    /\ scan' = IF scan.tgtkey % 2 = 1
               THEN [scan EXCEPT !.state = scan.tgtkey, !.at = "end",
                                 !.runs = Append(@, [state |-> scan.tgtkey, ids |-> scan.items,
                                                     complete |-> FALSE, yielded |-> <<>>])]
               ELSE [scan EXCEPT !.state = scan.tgtkey, !.at = "list"]
    /\ UNCHANGED <<main, rst, cbuf, pf, pre, obs>>

\* items = list(items): the grouper fetches ids until the key changes
list_items ==
    /\ scan.at = "list"
    /\ scan' = IF scan.currkey # scan.tgtkey \/ scan.pos = Len(scan.ids)
               THEN [scan EXCEPT !.at = "read"]
               ELSE LET sc == Detect(scan)
                    IN IF sc.currkey = sc.tgtkey
                       THEN [sc EXCEPT !.items = Append(@, sc.ids[sc.pos])]
                       ELSE sc
    /\ UNCHANGED <<main, rst, cbuf, pf, pre, obs>>

\* the loop over zip(items, repository.get_many(items)): every item of the
\* run is yielded
read_run ==
    /\ scan.at = "read"
    /\ LET run == RunChunks(scan.items, 1, scan.state, <<>>)
       IN scan' = [scan EXCEPT !.at = IF run.end = "ok" THEN "next" ELSE "end",
                               !.runs = Append(@, [state |-> scan.tgtkey, ids |-> scan.items,
                                                   complete |-> TRUE, yielded |-> run.items])]
    /\ UNCHANGED <<main, rst, cbuf, pf, pre, obs>>

\* robust_iterator called on an archive and run to its end
NextScan ==
    \/ \E in \in ScanInputs : robust_iterator_call(in)
    \/ groupby_next
    \/ loop_top
    \/ list_items
    \/ read_run

SpecScan == Init /\ [][NextScan]_vars

\* the items handed to a ChunkBuffer: two directories, a file of two chunks
\* and a file of one chunk
BufferItems ==
    {[path |-> "d", kind |-> "dir", source |-> NoSource, chunks |-> <<>>],
     [path |-> "e", kind |-> "dir", source |-> NoSource, chunks |-> <<>>],
     [path |-> "f", kind |-> "file", source |-> NoSource,
      chunks |-> [i \in 1..Len(FileContent("f")) |-> Triple(IdHash(FileContent("f")[i]))]],
     [path |-> "g", kind |-> "file", source |-> NoSource,
      chunks |-> <<Triple(IdHash(Zeros(1)))>>]}

\* what a CacheChunkBuffer call leaves: buffer, chunks, and the cache and
\* repository after write_chunk of the chunks emitted
BufferResult(r) ==
    LET S == AddChunks([cache |-> cache, repo |-> repo], Streams(r.emit))
    IN /\ buffer' = r.buffer
       /\ chunks' = chunks \o Ids(Streams(r.emit))
       /\ cache' = S.cache /\ repo' = S.repo

\* items_buffer.add(item)
buffer_add(item) ==
    /\ pc = "idle" /\ Len(added) < MaxItems
    /\ BufferResult(add(buffer, item))
    /\ added' = Append(added, item)
    /\ blast' = [op |-> "add", final |-> FALSE, bytes |-> buffer \o Pack(item),
                 chunks |-> chunks]
    /\ UNCHANGED <<dur, rman, files, manifest, name, ckname, selfId, saveName, saveRet,
                   nck, hard_links, ctl, chk, outcome, rst, rit, pf, pre, obs>>

\* items_buffer.flush(flush=final)
buffer_flush(final) ==
    /\ pc = "idle"
    /\ BufferResult(flush(buffer, final))
    /\ blast' = [op |-> "flush", final |-> final, bytes |-> buffer, chunks |-> chunks]
    /\ UNCHANGED <<dur, rman, files, manifest, name, ckname, selfId, saveName, saveRet,
                   nck, added, hard_links, ctl, chk, outcome, rst, rit, pf, pre, obs>>

\* a ChunkBuffer that is added to and flushed in any order
NextBuffer ==
    \/ \E item \in BufferItems : buffer_add(item)
    \/ \E final \in BOOLEAN : buffer_flush(final)

SpecBuffer == Init /\ [][NextBuffer]_vars

\* open(path, 'rb') fails: the miss has recorded a first occurrence, opens
\* the file, and the error leaves process_file and the ingest
process_file_unreadable(p) ==
    /\ pc = "ingest" /\ Len(added) < MaxItems
    /\ ~IsLaterOccurrence(p)
    /\ ~(Known(p) /\ AllSeen([cache |-> cache, repo |-> repo], files[p]))
    /\ hard_links' = IF Stat(p).nlink > 1 THEN Put(hard_links, Stat(p).ino, p) ELSE hard_links
    /\ pc' = "aborted"
    /\ UNCHANGED <<dur, vol, name, ckname, buffer, chunks, selfId, saveName, saveRet, nck,
                   added, ip, trace, snap, lastOp, crashAt, ndamage, synced, chk, outcome, aux>>

\* the items of the archives read: a directory and two regular files
PreloadTree == {it \in BufferItems : it.path \in {"d", "f", "g"}}

\* the paths a filter excludes; filter=None excludes nothing
Filters == {{}, {"f"}, {"d", "g"}}

\* the item-stream chunks an ingest of the items writes: add() for every
\* item, a flush(flush=True) where a checkpoint is written, and the final one
RECURSIVE StreamOf(_, _, _, _)
StreamOf(items, i, cks, buf) ==
    IF i > Len(items) THEN flush(buf, TRUE).emit
    ELSE LET r == add(buf, items[i])
             c == IF i \in cks THEN flush(r.buffer, TRUE) ELSE [emit |-> <<>>, buffer |-> r.buffer]
         IN r.emit \o c.emit \o StreamOf(items, i + 1, cks, c.buffer)

PreloadInputs ==
    {[ids |-> Ids(Streams(StreamOf(items, 1, cks, <<>>))), excl |-> excl, all |-> items] :
        items \in UNION {[1..n -> PreloadTree] : n \in 1..MaxItems},
        cks \in SUBSET (1..(MaxItems - 1)),
        excl \in Filters}

\* archive.iter_items(filter, preload=True) is called on an archive
unpack_many_call(in) ==
    /\ pl.at = "idle"
    /\ pl' = [NoPreload EXCEPT !.at = "feed", !.ids = in.ids, !.excl = in.excl, !.all = in.all]
    /\ UNCHANGED <<main, rst, cbuf, rit, pf, obs>>

\* items = [item for item in items if filter(item)]
Filtered(items, excl) == SelectSeq(items, LAMBDA it : it.path \notin excl)

\* the items of a batch whose ids go to repository.preload, taken from what
\* the unpacker decoded
ToPreloadUnfiltered(decoded, excl) == SelectSeq(decoded, HasChunks)

\* the items of a batch whose ids go to repository.preload
ToPreload(decoded, excl) == SelectSeq(Filtered(decoded, excl), HasChunks)

\* [c[0] for c in item[b'chunks']]
ChunkIds(item) == [i \in 1..Len(item.chunks) |-> item.chunks[i][1]]

RECURSIVE AllChunkIds(_)
AllChunkIds(items) ==
    IF items = <<>> THEN <<>> ELSE ChunkIds(Head(items)) \o AllChunkIds(Tail(items))

\* one turn of `for data in self.fetch_many(ids)` up to the first yield:
\* feed, decode, filter, preload; the generator ends when no chunk is left
unpack_many_feed ==
    /\ pl.at = "feed"
    /\ pl' = IF pl.ids = <<>> THEN [pl EXCEPT !.at = "end"]
             ELSE LET r == Drain(pl.pending \o Head(pl.ids).h.v)
                      items == Filtered(r.items, pl.excl)
                      sub == ToPreload(r.items, pl.excl)
                  IN [pl EXCEPT !.ids = Tail(pl.ids), !.pending = r.rest, !.batch = items,
                                !.log = @ \o [i \in 1..Len(sub) |-> [op |-> "preload", item |-> sub[i]]],
                                !.queue = @ \o AllChunkIds(sub),
                                !.at = IF items = <<>> THEN "feed" ELSE "yield"]
    /\ UNCHANGED <<main, rst, cbuf, rit, pf, obs>>

\* `for item in items: yield item`
unpack_many_yield ==
    /\ pl.at = "yield"
    /\ pl' = [pl EXCEPT !.log = Append(@, [op |-> "yield", item |-> Head(pl.batch)]),
                        !.at = "consume"]
    /\ UNCHANGED <<main, rst, cbuf, rit, pf, obs>>

\* the consumer: extract_item fetches the chunks of the item it was given
\* with fetch_many(ids, is_preloaded=True), which takes them from the front
\* of the prefetch queue; then it asks for the next item
consume_item ==
    /\ pl.at = "consume"
    /\ LET item == Head(pl.batch)
           want == IF HasChunks(item) THEN ChunkIds(item) ELSE <<>>
       IN pl' = [pl EXCEPT !.inorder = @ /\ Len(pl.queue) >= Len(want)
                                         /\ SubSeq(pl.queue, 1, Len(want)) = want,
                           !.queue = SubSeq(@, Len(want) + 1, Len(@)),
                           !.batch = Tail(@),
                           !.at = IF Tail(pl.batch) = <<>> THEN "feed" ELSE "yield"]
    /\ UNCHANGED <<main, rst, cbuf, rit, pf, obs>>

\* a restore loop over the items of an archive
NextPreload ==
    \/ \E in \in PreloadInputs : unpack_many_call(in)
    \/ unpack_many_feed
    \/ unpack_many_yield
    \/ consume_item

SpecPreload == Init /\ [][NextPreload]_vars

\* creates of a tree in which one regular file has two names
NextLinks ==
    \/ \E n \in Names : StartCreate(n)
    \/ \E p \in TreeLinks : process_file_traced(p)
    \/ \E p \in TreeLinks : process_file_unreadable(p)
    \/ FinishIngest
    \/ SaveStep
    \/ write_checkpoint_end
    \/ Exit

SpecLinks == Init /\ [][NextLinks]_vars

\* creates of a tree with two regular files, and deletes
NextFiles ==
    \/ \E n \in Names : StartCreate(n)
    \/ \E p \in TreeFiles : process_file_traced(p)
    \/ FinishIngest
    \/ SaveStep
    \/ write_checkpoint_end
    \/ \E n \in DOMAIN manifest : StartDelete(n)
    \/ DeleteStep
    \/ Exit

SpecFiles == Init /\ [][NextFiles]_vars

\* creates of archives of regular files, losses of repository objects and of
\* the manifest, and checks
NextReport ==
    \/ \E n \in Names : StartCreate(n)
    \/ \E p \in FilePaths : process_file(p)
    \/ FinishIngest
    \/ SaveStep
    \/ write_checkpoint_end
    \/ Exit
    \/ \E id \in repo : Corrupt(id)
    \/ CorruptManifest
    \/ \E rp \in BOOLEAN : check(rp)

SpecReport == Init /\ [][NextReport]_vars

\* --------------------------------------------------- Archive.restore_attrs
MaxId == 2

\* the users and groups of the machine the archive is restored on
Passwd == [n \in {"root", "alice"} |-> IF n = "root" THEN 0 ELSE 1]

Groups == [n \in {"wheel", "staff"} |-> IF n = "wheel" THEN 0 ELSE 1]

\* item[b'user'], item[b'group']: None, a name the machine knows, or one it
\* does not know
ItemUsers == {NoName, "root", "alice", "ghost"}

ItemGroups == {NoName, "wheel", "staff", "ghosts"}

OwnerItems ==
    {[user |-> u, group |-> g, uid |-> i, gid |-> j] :
        u \in ItemUsers, g \in ItemGroups, i \in 0..MaxId, j \in 0..MaxId}

\* user2uid(user): the uid of the name, None for no name or an unknown name
user2uid(user) ==
    IF user # NoName /\ user \in DOMAIN Passwd THEN Some(Passwd[user]) ELSE None

group2gid(group) ==
    IF group # NoName /\ group \in DOMAIN Groups THEN Some(Groups[group]) ELSE None

\* `x or y` of Python for x None or an integer, y an integer
PyOr(x, y) == IF x.some /\ x.v # 0 THEN x.v ELSE y

\* restore_attrs(path, item) of an Archive built with numeric_owner: the
\* ids it passes to os.lchown / os.fchown
restore_attrs(numeric_owner, item) ==
    /\ LET ruid == IF ~numeric_owner THEN user2uid(item.user) ELSE None
           rgid == IF ~numeric_owner THEN group2gid(item.group) ELSE None
       IN own' = [op |-> "chown", numeric_owner |-> numeric_owner,
                  user |-> item.user, group |-> item.group,
                  iuid |-> item.uid, igid |-> item.gid,
                  ruid |-> ruid, rgid |-> rgid,
                  uid |-> PyOr(ruid, item.uid), gid |-> PyOr(rgid, item.gid)]
    /\ UNCHANGED <<main, slast, rst, cbuf, rit, pf, pre>>

NextOwner == \E no \in BOOLEAN, item \in OwnerItems : restore_attrs(no, item)

SpecOwner == Init /\ [][NextOwner]_vars

\* creates and deletes of archives of regular files that share chunks, and
\* calc_stats on the archives the manifest names
NextStats ==
    \/ \E n \in Names : StartCreate(n)
    \/ \E p \in TreeFiles : process_file(p)
    \/ FinishIngest
    \/ SaveStep
    \/ write_checkpoint_end
    \/ \E n \in DOMAIN manifest : StartDelete(n)
    \/ DeleteStep
    \/ ExitStats
    \/ \E n \in DOMAIN manifest : calc_stats_traced(n)

SpecStats == Init /\ [][NextStats]_vars

Next ==
    \/ \E n \in Names : StartCreate(n)
    \/ \E p \in DirPaths : process_item(p)
    \/ \E p \in FilePaths : process_file(p)
    \/ FinishIngest
    \/ SaveStep
    \/ write_checkpoint_end
    \/ \E n \in DOMAIN manifest : StartDelete(n)
    \/ DeleteStep
    \/ Exit
    \/ Crash
    \/ \E n \in DOMAIN manifest : calc_stats(n)
    \/ \E rp \in BOOLEAN : check(rp)

Spec == Init /\ [][Next]_vars

\* creates, checks and calc_stats on a repository that can lose objects
NextDamage ==
    \/ \E n \in Names : StartCreate(n)
    \/ \E p \in DirPaths : process_item(p)
    \/ \E p \in FilePaths : process_file(p)
    \/ FinishIngest
    \/ SaveStep
    \/ write_checkpoint_end
    \/ Exit
    \/ \E n \in DOMAIN manifest : calc_stats(n)
    \/ \E rp \in BOOLEAN : check(rp)
    \/ \E id \in repo : Corrupt(id)

SpecDamage == Init /\ [][NextDamage]_vars

\* ================================================================ claims
Occ(seq, x) == Cardinality({i \in 1..Len(seq) : seq[i] = x})

RECURSIVE SumOver(_, _)
SumOver(S, c) ==
    IF S = {} THEN 0
    ELSE LET x == CHOOSE y \in S : TRUE IN c[x][1] + SumOver(S \ {x}, c)

\* the sum of the refcounts of a chunk table
RefSum(c) == SumOver(DOMAIN c, c)

\* every reference the graph of an archive holds: its metadata block, each
\* occurrence of an item-stream chunk id, each occurrence of a file-chunk id
Refs(aid) == <<aid>> \o ItemIds(aid) \o FileIds(iter_items(aid))

RECURSIVE LiveSum(_, _)
LiveSum(S, man) ==
    IF S = {} THEN 0
    ELSE LET n == CHOOSE m \in S : TRUE IN Len(Refs(man[n])) + LiveSum(S \ {n}, man)

LiveRefs(man) == LiveSum(DOMAIN man, man)

RECURSIVE Cat(_)
Cat(ids) == IF ids = <<>> THEN <<>> ELSE Head(ids).h.v \o Cat(Tail(ids))

Pos(e) ==
    IF \E i \in 1..Len(trace) : trace[i] = e
    THEN CHOOSE i \in 1..Len(trace) : trace[i] = e
    ELSE 0

Ordered(a, b) == Pos(b) > 0 => (Pos(a) > 0 /\ Pos(a) < Pos(b))

\* the archive block, its item-stream chunks and its file chunks are in R
Persisted(aid, R) == Range(Refs(aid)) \subseteq R

\* C1 as stated: after any sequence of completed create, delete and check
\* operations the sum of the cache's refcounts is the number of references
\* held by the graphs of the archives in the manifest.
C1_Conservation ==
    pc \in {"idle", "done"} => RefSum(cache) = LiveRefs(manifest)

\* C1: the same after any sequence of completed create, delete and check
\* operations in which no repairing check rewrote the repository; a check
\* never touches the cache.
C1_ConservationNoRewrite ==
    (pc \in {"idle", "done"} /\ synced) => RefSum(cache) = LiveRefs(manifest)

\* a create with a checkpoint completed next to an archive that shares
\* chunks with it, after the cache had seen a delete
C1_Witness ==
    /\ pc = "done" /\ synced /\ lastOp = "create" /\ nck = 1
    /\ Cardinality(DOMAIN manifest) = 2
    /\ \E id \in DOMAIN cache : cache[id][1] > 2

\* C2: whenever the process stops, every archive the durable manifest names
\* has its metadata block and every chunk it references in the durable
\* repository; a name save() has not made durable is absent from it.
C2_CrashConsistent ==
    \A n \in DOMAIN drman.archives : Persisted(drman.archives[n], drepo)

\* the process stopped in the final save() between repository commit and
\* cache commit, and the archive is named by the durable manifest
C2_Witness ==
    /\ pc = "crashed" /\ crashAt = <<"save", 6>> /\ saveRet = "final"
    /\ name \in DOMAIN drman.archives
    /\ nck > 0

\* C3: in save() and delete() the manifest write precedes the repository
\* commit, which precedes the cache commit, and the refcount changes and the
\* manifest entry change of the operation precede the manifest write.
C3_CommitOrder ==
    /\ Ordered("manifest_write", "repo_commit")
    /\ Ordered("repo_commit", "cache_commit")
    /\ lastOp = "create" =>
          /\ Ordered("flush", "manifest_write")
          /\ Ordered("add_chunk", "manifest_write")
          /\ Ordered("register", "manifest_write")
    /\ lastOp = "delete" =>
          /\ Ordered("decref_items", "manifest_write")
          /\ Ordered("decref_self", "manifest_write")
          /\ Ordered("unregister", "manifest_write")
    /\ (pc = "save" /\ Pos("manifest_write") > 0) =>
          /\ rman.archives = manifest
          /\ saveName \in DOMAIN manifest /\ manifest[saveName] = selfId
          /\ selfId \in DOMAIN cache
    /\ (pc = "delete" /\ Pos("manifest_write") > 0) =>
          /\ rman.archives = manifest
          /\ name \notin DOMAIN manifest
          /\ Count(cache, selfId) = Count(snap, selfId) - 1
    /\ (pc \in {"save", "delete"} /\ Pos("repo_commit") > 0) =>
          (drman = rman /\ drepo = repo)
    /\ (pc \in {"ckpt_end", "done"} /\ lastOp \in {"create", "delete"}) =>
          (Pos("cache_commit") = 6 /\ dcache = cache)

\* a delete() and a checkpoint save() ran to their last statement
C3_Witness ==
    \/ pc = "done" /\ lastOp = "delete" /\ Len(trace) = 6 /\ manifest # Empty
    \/ pc = "ckpt_end" /\ Len(trace) = 6 /\ manifest # Empty

\* C4: after delete(A) every chunk a remaining archive references still has
\* refcount >= 1, and each chunk lost exactly one count per reference A held.
C4_DeleteKeepsShared ==
    (pc = "done" /\ lastOp = "delete") =>
        /\ \A n \in DOMAIN manifest : \A id \in Range(Refs(manifest[n])) :
              Count(cache, id) >= 1
        /\ \A id \in DOMAIN snap :
              Count(cache, id) = Count(snap, id) - Occ(Refs(selfId), id)

\* the deleted archive shared a file chunk and an item-stream chunk with an
\* archive that is still there
C4_Witness ==
    /\ pc = "done" /\ lastOp = "delete"
    /\ \E n \in DOMAIN manifest :
          /\ Range(ItemIds(manifest[n])) \cap Range(ItemIds(selfId)) # {}
          /\ Range(FileIds(iter_items(manifest[n])))
                \cap Range(FileIds(iter_items(selfId))) # {}

\* C5: iter_items on the archive the final save() wrote yields the items
\* passed to add_item, in call order, whatever flushes and checkpoints
\* happened in between.
C5_ItemRoundTrip ==
    (pc = "done" /\ lastOp = "create") =>
        /\ name \in DOMAIN manifest
        /\ Range(ItemIds(manifest[name])) \subseteq repo
        /\ iter_items(manifest[name]) = added

\* two items were added around a checkpoint and one of them straddles two
\* item-stream chunks
C5_Witness ==
    /\ pc = "done" /\ lastOp = "create"
    /\ Len(added) = 2 /\ nck = 1
    /\ \E i \in 1..Len(chunks) : Head(chunks[i].h.v).t = "ent"

\* C6: the plaintexts of the chunks recorded in `chunks`, in list order,
\* followed by the bytes in the buffer, are the serialized items in add
\* order; after flush(final) the buffer is empty.
C6_StreamPreserved ==
    lastOp = "create" =>
        /\ Cat(chunks) \o buffer = PackAll(added)
        /\ (Pos("flush") > 0 /\ pc \in {"save", "ckpt_end", "done"}) => buffer = <<>>

\* a non-final flush has written chunks and kept a tail in the buffer
C6_Witness ==
    /\ lastOp = "create" /\ pc = "ingest"
    /\ chunks # <<>> /\ buffer # <<>> /\ nck = 0

\* robust_iterator as C7 describes it: a run of missing chunks is skipped and
\* the runs of present chunks after it are read, each with a fresh unpacker
\* and one resync
RECURSIVE SkipMissingRuns(_)
SkipMissingRuns(groups) ==
    IF groups = <<>> THEN <<>>
    ELSE LET g == Head(groups)
         IN (IF g.state % 2 = 1 THEN <<>> ELSE RunChunks(g.ids, 1, g.state, <<>>).items)
            \o SkipMissingRuns(Tail(groups))

ItemNames(items) == [i \in 1..Len(items) |-> <<items[i].path, items[i].kind>>]

\* C7: for every archive a completed check rebuilt, the robust iterator
\* yielded the items of every run of present item-stream chunks, the runs
\* after a run of missing chunks included, in stream order, and the rebuilt
\* archive holds exactly these items.
C7_RobustIteration ==
    (lastOp = "check" /\ pc = "done") =>
        \A n \in DOMAIN clog :
            LET rec == clog[n]
                have == [id \in Range(ItemIds(rec.id)) \ rec.missing |-> <<0, 0, 0>>]
                want == SkipMissingRuns(GroupBy(ItemIds(rec.id), 0, have))
            IN /\ rec.yielded = want
               /\ ItemNames(iter_items(cman[n])) = ItemNames(want)

\* C8: every call of verify_file_chunks returns a list of the same length in
\* which every entry keeps its size; an entry whose id the index holds is
\* unchanged and its id gains one reference; an entry whose id is missing
\* gets the id of the all-zero chunk of its size, which gains one reference
\* and, in repair mode, is in the repository afterwards.
C8_ZeroChunkReplacement ==
    (lastOp = "check" /\ pc \in {"done", "aborted"}) =>
        \A n \in DOMAIN clog : \A c \in 1..Len(clog[n].calls) :
            LET call == clog[n].calls[c] IN
            /\ Len(call.list) = Len(call.entries)
            /\ Len(call.steps) = Len(call.entries)
            /\ \A j \in 1..Len(call.entries) :
                  /\ call.list[j][2] = call.entries[j][2]
                  /\ call.steps[j].after = call.steps[j].before + 1
                  /\ Count(cchunks, call.list[j][1]) >= 1
                  /\ IF call.steps[j].present
                     THEN call.list[j] = call.entries[j]
                     ELSE /\ call.list[j][1] = IdHash(Zeros(call.entries[j][2]))
                          /\ call.list[j][3] = CSize(call.entries[j][2])
                          /\ repair => call.steps[j].stored

\* a repairing check rebuilt a file one of whose chunks was lost and another
\* of whose chunks is still there
C8_Witness ==
    /\ lastOp = "check" /\ pc = "done" /\ repair
    /\ \E n \in DOMAIN clog : \E c \in 1..Len(clog[n].calls) :
          LET steps == clog[n].calls[c].steps IN
          /\ \E j \in 1..Len(steps) : ~steps[j].present /\ steps[j].stored
          /\ \E j \in 1..Len(steps) : steps[j].present

\* every reference the archives S of a manifest hold
RECURSIVE AllRefs(_, _)
AllRefs(S, man) ==
    IF S = {} THEN <<>>
    ELSE LET n == CHOOSE m \in S : TRUE
         IN Refs(man[n]) \o AllRefs(S \ {n}, man)

\* C9: a completed check has removed from its manifest exactly the archives
\* whose metadata block the repository lacked, flagged the error, kept
\* every other archive, and counted in the rebuilt index only the
\* references of the archives it kept; in repair mode the manifest it wrote
\* is the one without the dropped archives.
C9_UnrecoverableDropped ==
    (lastOp = "check" /\ pc = "done") =>
        /\ \A n \in DOMAIN snapM :
              IF snapM[n] \in snapR
              THEN n \in DOMAIN cman /\ n \notin dropped
              ELSE n \notin DOMAIN cman /\ n \in dropped /\ errorFound
        /\ LET refs == AllRefs(DOMAIN cman, cman)
           IN \A id \in DOMAIN cchunks \cup Range(refs) :
                 Count(cchunks, id) = Occ(refs, id)
        /\ repair => (rman.archives = cman /\ drman.archives = cman
                         /\ dropped \cap DOMAIN drman.archives = {})

\* a repairing check dropped an archive and kept another one that shares a
\* chunk with it
C9_Witness ==
    /\ lastOp = "check" /\ pc = "done" /\ repair
    /\ \E n \in dropped : \E m \in DOMAIN cman :
          Range(Refs(snapM[n])) \cap Range(Refs(snapM[m])) # {}

\* C10: when a call of calc_stats has ended, by returning or by failing, the
\* cache's chunk table is what it was before the call.
C10_StatsReadOnly ==
    (lastOp = "stats" /\ pc \in {"done", "aborted"}) => cache = snap

C12_CheckpointsDoNotLinger ==
    lastOp = "create" =>
        /\ pc # "aborted"
        /\ pc = "ingest" => ckname \notin DOMAIN manifest
        /\ (pc = "save" /\ trace = <<>>) => saveName \notin DOMAIN manifest
        /\ pc = "done" =>
              /\ rman.archives = manifest /\ drman.archives = manifest
              /\ name \in DOMAIN manifest
              /\ ckname \notin DOMAIN manifest
              /\ DOMAIN manifest \subseteq Names

\* the final save completed after two checkpoints under the same name
C12_Witness ==
    /\ pc = "done" /\ lastOp = "create" /\ nck = 2
    /\ name \in DOMAIN rman.archives /\ ckname \notin DOMAIN rman.archives

\* C19: write_checkpoint releases the block the checkpoint save added and
\* nothing else: when save(checkpoint_name) has returned, self.id is the
\* checkpoint's block and holds one reference more than before the ingest;
\* during the ingest every count is the count before the ingest plus the
\* references of the item-stream chunks written and of the file chunks of
\* the items added.
C19_CheckpointDecref ==
    (lastOp = "create" /\ pc \in {"ingest", "ckpt_end"}) =>
        LET held == chunks \o FileIds(added)
            block == IdHash(ArchData(ckname, chunks))
        IN /\ pc = "ckpt_end" =>
                 /\ selfId = block /\ selfId \in repo
                 /\ Count(cache, selfId) = Count(snap, selfId) + 1
           /\ \A id \in DOMAIN cache \cup DOMAIN snap \cup Range(held) :
                 Count(cache, id) = Count(snap, id) + Occ(held, id)
                                     + (IF pc = "ckpt_end" /\ id = block THEN 1 ELSE 0)

\* the ingest goes on after a checkpoint that flushed item-stream chunks
\* shared with an older archive
C19_Witness ==
    /\ lastOp = "create" /\ pc = "ingest" /\ nck = 1
    /\ chunks # <<>>
    /\ \E i \in 1..Len(chunks) : Count(snap, chunks[i]) > 0

\* the path begins with '/' or has a '..' segment
Unsafe(path) == StartsWithSlash(path) \/ \E i \in 1..Len(path) : path[i] = ".."

\* C13: extract_item on an item whose path begins with '/' or holds a '..'
\* segment anywhere raises the unsafe-path error and leaves the filesystem
\* as it was.
C13_UnsafeRejected ==
    (xlast.res # "none" /\ Unsafe(xlast.item.path)) =>
        (xlast.res = "unsafe" /\ ~xlast.changed)

\* C14: flush on an empty buffer changes nothing; a non-final flush whose
\* chunker run gives n > 1 chunks writes the first n-1 in order, appends
\* their ids to `chunks` and leaves the last chunk's bytes in the buffer; a
\* final flush, or one that gives a single chunk, writes every chunk and
\* empties the buffer; add() flushes (non-final) exactly when the buffer
\* holds more than BUFFER_SIZE after the write.
C14_TailDeferral ==
    blast.op # "none" =>
        LET cs == chunkify(blast.bytes)
            n == Len(cs)
            flushed == blast.op = "flush" \/ Len(blast.bytes) > BUFFER_SIZE
        IN IF ~flushed
           THEN chunks = blast.chunks /\ buffer = blast.bytes
           ELSE IF blast.bytes = <<>>
           THEN chunks = blast.chunks /\ buffer = <<>>
           ELSE IF ~blast.final /\ n > 1
           THEN /\ chunks = blast.chunks \o Ids(Streams(SubSeq(cs, 1, n - 1)))
                /\ buffer = cs[n]
           ELSE /\ chunks = blast.chunks \o Ids(Streams(cs))
                /\ buffer = <<>>

\* an add() flushed a buffer that the chunker left in one piece, after an
\* earlier non-final flush had kept a tail
C14_Witness ==
    /\ blast.op = "add" /\ Len(blast.bytes) > BUFFER_SIZE
    /\ Len(chunkify(blast.bytes)) = 1
    /\ blast.chunks # <<>> /\ buffer = <<>>

\* C15: when check(repair=True) has completed, every archive of the written
\* manifest has its metadata block, its item-stream chunks and the file
\* chunks of its items in the committed repository, each with a rebuilt
\* count of at least 1; the ids the check deleted all have rebuilt count 0,
\* and an id marked possibly superseded that is referenced again is kept.
C15_NoDanglingAfterRepair ==
    (lastOp = "check" /\ pc = "done" /\ repair) =>
        /\ drepo = repo /\ drman = rman
        /\ \A n \in DOMAIN rman.archives :
              \A id \in Range(Refs(rman.archives[n])) :
                  id \in repo /\ Count(cchunks, id) >= 1
        /\ \A id \in DOMAIN cchunks \ repo : Count(cchunks, id) = 0
        /\ snapR \subseteq DOMAIN cchunks
        /\ \A id \in superseded : Count(cchunks, id) >= 1 => id \in repo

\* a repairing check of a damaged repository rewrote two archives; a chunk
\* of the first, marked possibly superseded, is referenced by the second
C15_Witness ==
    /\ lastOp = "check" /\ pc = "done" /\ repair /\ ndamage > 0 /\ errorFound
    /\ Cardinality(DOMAIN rman.archives) = 2
    /\ \E id \in superseded : Count(cchunks, id) >= 1 /\ id \in repo

\* the number of ids in the first j runs
RECURSIVE RunEnd(_, _)
RunEnd(r, j) == IF j = 0 THEN 0 ELSE RunEnd(r, j - 1) + Len(r[j].ids)

CallsOf(calls, op) == SelectSeq(calls, LAMBDA c : c.op = op)

\* C17: process_file changes refcounts once per reference the item stores.
\* When the file is known and every memoized id is seen, the calls are one
\* chunk_incref per memoized id, in order, and nothing else: no open, no
\* add_chunk, no memorize_file, and cache.files stays as it was.  Otherwise
\* there is no chunk_incref; the file is opened, every chunk of the file gets
\* one add_chunk in byte order, and memorize_file is called last with the
\* ids add_chunk returned.  In both cases the item's chunks are the triples
\* the calls returned, and every refcount grew by the number of times the
\* item names the id.
C17_RefcountOncePerReference ==
    (plast.op = "process_file") =>
        LET hit == plast.known /\ \A i \in 1..Len(plast.memo) : plast.memo[i] \in DOMAIN plast.before
            inc == CallsOf(plast.calls, "chunk_incref")
            adds == CallsOf(plast.calls, "add_chunk")
            both == CallsOf(plast.calls, "chunk_incref") \o CallsOf(plast.calls, "add_chunk")
            stored == [i \in 1..Len(plast.item.chunks) |-> plast.item.chunks[i][1]]
        IN /\ hit =>
                 /\ plast.calls = inc
                 /\ [i \in 1..Len(inc) |-> inc[i].arg] = plast.memo
                 /\ plast.known /\ plast.files[plast.path] = plast.memo
           /\ ~hit =>
                 /\ inc = <<>>
                 /\ plast.calls = <<[op |-> "open", arg |-> plast.path, ret |-> <<>>]>> \o adds
                        \o <<[op |-> "memorize_file", arg |-> <<plast.path, stored>>, ret |-> <<>>]>>
                 /\ [i \in 1..Len(adds) |-> adds[i].arg] = Ids(FileContent(plast.path))
                 /\ plast.files[plast.path] = stored
           /\ plast.item.chunks = [i \in 1..Len(both) |-> both[i].ret]
           /\ \A i \in 1..Len(stored) :
                 plast.item.chunks[i] = <<stored[i], plast.after[stored[i]][2], plast.after[stored[i]][3]>>
           /\ \A id \in DOMAIN plast.before \cup DOMAIN plast.after :
                 Count(plast.after, id) = Count(plast.before, id) + Occ(stored, id)

\* a known file of which one memoized id is still seen and another is not
C17_Witness ==
    /\ plast.op = "process_file" /\ plast.known
    /\ \E i \in 1..Len(plast.memo) : plast.memo[i] \in DOMAIN plast.before
    /\ \E i \in 1..Len(plast.memo) : plast.memo[i] \notin DOMAIN plast.before

\* the first item of a sequence that belongs to the inode of path p
FirstOf(items, p) ==
    LET same == {j \in 1..Len(items) : Stat(items[j].path).ino = Stat(p).ino}
    IN CHOOSE j \in same : \A k \in same : j <= k

\* every hardlink item follows an item that has its source as path and
\* carries chunks
LinksFollowSource(items) ==
    \A i \in 1..Len(items) : items[i].kind = "link" =>
        \E j \in 1..(i - 1) : items[j].path = items[i].source /\ items[j].kind = "file"

EventItems(log, op) ==
    LET evs == SelectSeq(log, LAMBDA e : e.op = op)
    IN [i \in 1..Len(evs) |-> evs[i].item]

IsPrefix(a, b) == Len(a) <= Len(b) /\ a = SubSeq(b, 1, Len(a))

\* C20: with preload=True the ids handed to repository.preload are those of
\* the items with chunks that pass the filter, an excluded item is never
\* preloaded, the ids are submitted item by item in the order the items are
\* yielded and before the item is yielded, and a consumer that fetches the
\* chunks of each yielded item finds them at the front of the prefetch queue;
\* when the generator ends, what was yielded is what passed the filter and
\* the queue is empty.
C20_PreloadProtocol ==
    LET P == EventItems(pl.log, "preload")
        Y == EventItems(pl.log, "yield")
    IN /\ \A i \in 1..Len(P) : P[i].path \notin pl.excl /\ HasChunks(P[i])
       /\ IsPrefix(SelectSeq(Y, HasChunks), P)
       /\ IsPrefix(P, SelectSeq(Filtered(pl.all, pl.excl), HasChunks))
       /\ IsPrefix(Y, Filtered(pl.all, pl.excl))
       /\ pl.inorder
       /\ pl.at \in {"feed", "yield", "end"} =>
             pl.queue = AllChunkIds(SubSeq(P, Len(SelectSeq(Y, HasChunks)) + 1, Len(P)))
       /\ pl.at = "end" =>
             /\ Y = Filtered(pl.all, pl.excl)
             /\ P = SelectSeq(Y, HasChunks)
             /\ pl.queue = <<>>

\* two files completed in the same chunk: both were preloaded before the
\* first was yielded, and the consumer has fetched both
C20_Witness ==
    /\ pl.at = "end" /\ Len(pl.log) = 4
    /\ pl.log[1].op = "preload" /\ pl.log[2].op = "preload"
    /\ pl.log[3].op = "yield" /\ pl.log[4].op = "yield"

\* C21: a check with repair=False makes no repository.put, no
\* repository.delete, no repository.commit and no manifest.write, and leaves
\* the repository and the manifest, in the running transaction and on disk,
\* as they were, whether the manifest is there or lost and whatever objects
\* are missing; what it rewrites is its own index and its manifest in memory.
C21_ReportOnlyWritesNothing ==
    (wlog.op = "check" /\ ~wlog.repair) =>
        /\ wlog.puts = {} /\ wlog.deletes = {}
        /\ wlog.commits = 0 /\ wlog.writes = 0
        /\ repo = wlog.repo /\ drepo = wlog.drepo
        /\ rman = wlog.rman /\ drman = wlog.drman

\* a report-only check of a repository that lost its manifest: the checker
\* rebuilt the manifest in memory and the repository still has none
C21_Witness ==
    /\ wlog.op = "check" /\ ~wlog.repair /\ wlog.rebuilt
    /\ pc = "done" /\ errorFound
    /\ cman # Empty /\ ~rman.present

\* the cache counts are the numbers of references the archives of man hold
CountsConsistent(c, man) ==
    \A id \in DOMAIN c \cup Range(AllRefs(DOMAIN man, man)) :
        Count(c, id) = Occ(AllRefs(DOMAIN man, man), id)

UpdateIds(U) == [i \in 1..Len(U) |-> U[i].id]

Earlier(U, i) == Cardinality({j \in 1..(i - 1) : U[j].id = U[i].id})

UniqueCalls(U, id) == Cardinality({i \in 1..Len(U) : U[i].id = id /\ U[i].unique})

\* C22: in a calc_stats call that returned, stats.update was called once per
\* reference of the archive with the size and csize of the chunk, and a
\* call had unique set exactly when the decrement that followed took the
\* count from 1 to 0; when the cache counts were the references of the
\* archives of the manifest, each chunk was counted unique at most once,
\* and once exactly when no other archive of the manifest refers to it.
C22_UniqueAccounting ==
    (slast.op = "stats" /\ slast.ok) =>
        LET U == slast.updates
            refs == Refs(slast.id)
            others == AllRefs(DOMAIN slast.archives \ {slast.name}, slast.archives)
        IN /\ Len(U) = Len(refs)
           /\ \A id \in Range(refs) : Occ(UpdateIds(U), id) = Occ(refs, id)
           /\ \A i \in 1..Len(U) :
                 /\ U[i].size = slast.before[U[i].id][2]
                 /\ U[i].csize = slast.before[U[i].id][3]
                 /\ U[i].unique <=> (slast.before[U[i].id][1] - Earlier(U, i) = 1)
           /\ CountsConsistent(slast.before, slast.archives) =>
                 \A id \in Range(refs) :
                     UniqueCalls(U, id) = IF Occ(others, id) = 0 THEN 1 ELSE 0

\* calc_stats returned for an archive, next to another archive, that holds
\* one chunk twice and alone, and one chunk the other archive holds too
C22_Witness ==
    /\ slast.op = "stats" /\ slast.ok /\ lastOp = "stats" /\ pc = "done"
    /\ CountsConsistent(slast.before, slast.archives)
    /\ Cardinality(DOMAIN slast.archives) = 2
    /\ LET refs == Refs(slast.id)
           others == AllRefs(DOMAIN slast.archives \ {slast.name}, slast.archives)
       IN /\ \E id \in Range(refs) : Occ(refs, id) = 2 /\ Occ(others, id) = 0
          /\ \E id \in Range(refs) : Occ(others, id) > 0
          /\ \E i \in 1..Len(slast.updates) : slast.updates[i].unique
          /\ \E i \in 1..Len(slast.updates) : ~slast.updates[i].unique

\* C23: the uid (gid) restore_attrs passes to chown is the one the item's
\* user (group) name resolves to, 0 included, when numeric_owner is false and
\* the name resolves, and the item's stored uid (gid) otherwise.
C23_OwnerResolution ==
    own.op = "chown" =>
        /\ own.uid = IF ~own.numeric_owner /\ user2uid(own.user).some
                      THEN user2uid(own.user).v ELSE own.iuid
        /\ own.gid = IF ~own.numeric_owner /\ group2gid(own.group).some
                      THEN group2gid(own.group).v ELSE own.igid

====
